---- MODULE Spec2Model ----
(***************************************************************************)
(* License Tracker: the allocation engine (AssignmentService and the two   *)
(* /assignments endpoints of server.py), the risk scorer and the           *)
(* aggregator (AlertService, ReportService, the MCP risk handler) over the *)
(* entity store.                                                           *)
(*                                                                         *)
(* Every request runs in its own database session.  A request is a         *)
(* sequence of store accesses (one query, or one insert/delete + commit,   *)
(* per step); requests of different server processes interleave between    *)
(* these steps.  Specification Spec lets them interleave freely;           *)
(* specification SpecSeq runs one request at a time.  A handler keeps its  *)
(* response (pc = "done") until it is given the next request.              *)
(*                                                                         *)
(* The reports are read-only requests; the specifications SpecSeverity,    *)
(* SpecUsage, SpecExpiry, SpecFleet and SpecCompliance apply them to stores *)
(* drawn from bounded sets, SpecDash runs the dashboard between Assign and *)
(* Release requests.  Dates are day numbers; a float is the exact ratio    *)
(* num/den.                                                                *)
(*                                                                         *)
(* SpecOps adds the license and device endpoints, each a whole handler, to *)
(* the Assign and Release requests, one request at a time.  SpecRace runs  *)
(* the dashboard query by query between license and device requests.       *)
(* SpecBulk is the bulk device upload, SpecAudit the two routes that read  *)
(* the audit log.                                                          *)
(*                                                                         *)
(* Not modelled: timestamps (assigned_at, timestamp), the free-text columns *)
(* of License and Device, JWT decoding, the vendors table (a request says  *)
(* whether its vendor is known), ip_address values (a request says whether *)
(* its address is well-formed; uniqueness of addresses is not modelled).   *)
(***************************************************************************)
EXTENDS Integers, Sequences, FiniteSets, TLC

\* ------------------------------------------------------------------ bounds
MaxUsage == 2        \* largest max_usage a license of the initial store has
MaxRequests == 3     \* requests served in one behaviour
MaxMutations == 2    \* requests (in SpecDash: requests that change the store)
                     \* of one behaviour in the specifications of the
                     \* dashboard and of the license and device endpoints
MaxDays == 40        \* largest days_until_expiry a severity is asked for
MaxPercent == 120    \* largest percentage a severity is asked for
MaxRows == 2         \* rows of an uploaded CSV file
MaxCap == 10         \* largest max_usage, and most assignments of one license,
                     \* in the stores the usage reports are applied to

\* ---------------------------------------------------------------- universe
LicenseKeys == {"LIC-1", "LIC-2"}        \* licenses of the store
DeviceIds == {"DEV-A", "DEV-B", "DEV-C"} \* devices of the store
NoLicense == "LIC-404"                   \* a key no license has
NoDevice == "DEV-404"                    \* an id no device has
Procs == {1, 2}                          \* request handlers in flight

\* license keys of the stores the expiry reports are applied to
ExpiryKeys == <<"LIC-1", "LIC-2", "LIC-3">>

\* device ids of the larger stores the usage reports are applied to
FleetNames == <<"DEV-A", "DEV-B", "DEV-C", "DEV-D", "DEV-E", "DEV-F", "DEV-G",
                "DEV-H", "DEV-I", "DEV-J", "DEV-K", "DEV-L">>

\* date.today(), as a day number
Today == 0

\* models.DeviceStatus
DeviceStatus == {"ACTIVE", "MAINTENANCE", "OBSOLETE", "DECOMMISSIONED"}

\* models.UserRole and the users table (user_id -> role)
UserRole == [u \in {"u-eng", "u-aud"} |-> IF u = "u-eng" THEN "ENGINEER" ELSE "AUDITOR"]
UserIds == DOMAIN UserRole

\* server.py role constants
ADMIN == "ADMIN"
ENGINEER == "ENGINEER"
AUDITOR == "AUDITOR"

VARIABLES
    licenses,     \* licenses table: license_key -> max_usage
    devices,      \* devices table: the device_ids present
    assignments,  \* assignments table: set of Assignment rows
    audit_calls,  \* every AuditService.log_action call, in order; .stored says
                  \* whether its row was committed to audit_logs
    pc,           \* per handler: the step it is at
    req,          \* per handler: the request it serves
    loc,          \* per handler: the handler's local variables
    result,       \* per handler: the response (HTTP status and body)
    pre,          \* per handler: the store as it was when the request began
    nreq,         \* requests started so far
    issued,       \* uuids generated so far
    valid_to,     \* licenses table: license_key -> valid_to, a day number
    valid_from,   \* licenses table: license_key -> valid_from, a day number
    status,       \* devices table: device_id -> DeviceStatus
    report        \* the response to the last read-only report request

vars == <<licenses, devices, assignments, audit_calls, pc, req, loc, result, pre,
          nreq, issued, valid_to, valid_from, status, report>>

\* ------------------------------------------------------------------ records
\* models.Assignment
Assignment(id, license_key, device_id, assigned_by) ==
    [assignment_id |-> id, license_key |-> license_key,
     device_id |-> device_id, assigned_by |-> assigned_by]

NoReq == [op |-> "none", user |-> "", license_key |-> "", device_id |-> "",
          assigned_by |-> "", assignment_id |-> 0]
NoLoc == [max_usage |-> 0, peek |-> {}, assignment |-> {}]
NoResult == [status_code |-> 0, detail |-> "", assignment |-> {},
             license_key |-> "", device_id |-> "",
             current_usage |-> 0, max_usage |-> 0]
NoPre == [licenses |-> [k \in {} |-> 0], devices |-> {}, assignments |-> {},
          audit |-> 0]

\* no report request was answered yet
NoReport == [op |-> "none"]

\* raise HTTPException(status_code, detail)
HTTPException(status_code, detail) ==
    [NoResult EXCEPT !.status_code = status_code, !.detail = detail]

\* ------------------------------------------------------------ store queries
\* the filter compares license_key with the device id: it never matches
FindExistingWrongColumn(store, license_key, device_id) ==
    {a \in store : a.license_key = device_id /\ a.device_id = device_id}

\* db.query(Assignment).filter(license_key ==, device_id ==).first()
FindExisting(store, license_key, device_id) ==
    {a \in store : a.license_key = license_key /\ a.device_id = device_id}

\* the count without its filter: the assignments of every license
CountAssignmentsUnfiltered(store, license_key) == Cardinality(store)

\* db.query(Assignment).filter(license_key ==).count()
CountAssignments(store, license_key) ==
    Cardinality({a \in store : a.license_key = license_key})

\* the lookup without its filter: any row of the table
FindAssignmentUnfiltered(store, assignment_id) == store

\* db.query(Assignment).filter(assignment_id ==).first()
FindAssignment(store, assignment_id) ==
    {a \in store : a.assignment_id = assignment_id}

\* the limit check off by one: > for >=
CapacityReachedOffByOne(current_usage, max_usage) == current_usage > max_usage

\* if current_usage >= license.max_usage: raise
CapacityReached(current_usage, max_usage) == current_usage >= max_usage

\* create_assignment: current_user.role.value not in [ADMIN, ENGINEER] -> 403
MayAssign(user) == UserRole[user] \in {ADMIN, ENGINEER}

\* delete_assignment: current_user.role.value not in [ADMIN, ENGINEER] -> 403
MayUnassign(user) == UserRole[user] \in {ADMIN, ENGINEER}

\* str(uuid.uuid4()): an id never generated before
Uuid4(n) == n + 1

\* AuditService.log_action: the row is added and committed, or the commit
\* fails and the session is rolled back (ok = FALSE); either way it returns
LogAction(calls, user_id, entity_type, entity_id, action, license_key, device_id, ok) ==
    Append(calls, [user_id |-> user_id, entity_type |-> entity_type,
                   entity_id |-> entity_id, action |-> action,
                   license_key |-> license_key, device_id |-> device_id,
                   stored |-> ok])

\* ------------------------------------------------------------------ floats
\* a float: the exact ratio num/den, den > 0.  Within the bounds of this
\* module the IEEE result of count / max_usage * 100 compares with every
\* threshold used here as the exact ratio does, and no round() meets a tie.
Float(num, den) == [num |-> num, den |-> den]

\* x >= t, for an integer t
GE(x, t) == x.num >= t * x.den

\* round(x, 2) for x >= 0: the nearest multiple of 1/100 (a tie goes to the
\* even one)
Round2(x) ==
    LET a == x.num * 100
        q == a \div x.den
        r == a % x.den
    IN  Float(IF 2 * r < x.den THEN q
              ELSE IF 2 * r > x.den THEN q + 1
              ELSE IF q % 2 = 0 THEN q ELSE q + 1,
              100)

\* -------------------------------------- GET /api/licenses/{key}/utilization
\* if utilization_percent >= 90: CRITICAL elif >= 70: WARNING else: OK
UtilizationStatus(utilization_percent) ==
    IF GE(utilization_percent, 90) THEN "CRITICAL"
    ELSE IF GE(utilization_percent, 70) THEN "WARNING"
    ELSE "OK"

\* the percentage left unrounded
UtilizationPercentUnrounded(current_usage, max_usage) ==
    IF max_usage > 0 THEN Float(current_usage * 100, max_usage) ELSE Float(0, 1)

\* round((current_usage / max_usage) * 100, 2) if max_usage > 0 else 0
UtilizationPercent(current_usage, max_usage) ==
    IF max_usage > 0 THEN Round2(Float(current_usage * 100, max_usage))
    ELSE Float(0, 1)

\* AssignmentService.get_license_utilization on the store (L: licenses,
\* A: assignments)
GetLicenseUtilization(L, A, license_key) ==
    IF license_key \notin DOMAIN L
      THEN HTTPException(404, "license_not_found")
      ELSE LET current_usage == CountAssignments(A, license_key)
               max_usage == L[license_key]
               available == max_usage - current_usage
               utilization_percent == UtilizationPercent(current_usage, max_usage)
           IN  [status_code |-> 200, license_key |-> license_key,
                max_usage |-> max_usage, current_usage |-> current_usage,
                available |-> available,
                utilization_percent |-> utilization_percent,
                status |-> UtilizationStatus(utilization_percent)]

\* ------------------------------------------------------- lists and sorting
\* the orders in which a query without ORDER BY can return the rows S
AllOrders(S) ==
    {s \in [1..Cardinality(S) -> S] : {s[i] : i \in 1..Cardinality(S)} = S}

\* the elements of a list
Range(seq) == {seq[i] : i \in 1..Len(seq)}

\* [f(x) for x in seq]
Map(seq, f) == [i \in 1..Len(seq) |-> f[seq[i]]]

\* a < b for two sort keys (tuples of integers of one length; False < True
\* is 0 < 1)
KeyLess(a, b) ==
    \E i \in 1..Len(a) : a[i] < b[i] /\ \A j \in 1..(i - 1) : a[j] = b[j]

\* x put into the sorted list after every element whose key is not greater
InsertSorted(sorted, x, key) ==
    LET n == Cardinality({i \in 1..Len(sorted) : ~KeyLess(key[x], key[sorted[i]])})
    IN  SubSeq(sorted, 1, n) \o <<x>> \o SubSeq(sorted, n + 1, Len(sorted))

\* sorted(seq, key=...): ascending by key; elements of equal key keep their
\* order (with reverse=True as well: there key holds the negated key)
RECURSIVE Sorted(_, _)
Sorted(seq, key) ==
    IF seq = <<>> THEN <<>>
    ELSE InsertSorted(Sorted(SubSeq(seq, 1, Len(seq) - 1), key), seq[Len(seq)], key)

\* ------------------------------------------------------------- AlertService
\* the first boundary with < for <=
ExpirySeverityStrict(days_until_expiry) ==
    IF days_until_expiry < 7 THEN "CRITICAL"
    ELSE IF days_until_expiry <= 15 THEN "HIGH"
    ELSE IF days_until_expiry <= 30 THEN "MEDIUM"
    ELSE "LOW"

\* _get_expiry_severity
ExpirySeverity(days_until_expiry) ==
    IF days_until_expiry <= 7 THEN "CRITICAL"
    ELSE IF days_until_expiry <= 15 THEN "HIGH"
    ELSE IF days_until_expiry <= 30 THEN "MEDIUM"
    ELSE "LOW"

\* the alert scale replaced by the 90/70 scale of the utilization status
UsageSeverityUnified(usage_percentage) ==
    IF GE(usage_percentage, 90) THEN "CRITICAL"
    ELSE IF GE(usage_percentage, 70) THEN "WARNING"
    ELSE "NORMAL"

\* _get_usage_severity
UsageSeverity(usage_percentage) ==
    IF GE(usage_percentage, 95) THEN "CRITICAL"
    ELSE IF GE(usage_percentage, 90) THEN "HIGH"
    ELSE IF GE(usage_percentage, 75) THEN "WARNING"
    ELSE "NORMAL"

\* (usage_count / license.max_usage * 100) if license.max_usage > 0 else 0
UsagePercentage(usage_count, max_usage) ==
    IF max_usage > 0 THEN Float(usage_count * 100, max_usage) ELSE Float(0, 1)

\* the dict get_overused_licenses appends for a license (without its message
\* and the name and vendor columns)
OverusedAlert(L, A, license_key) ==
    LET usage_count == CountAssignments(A, license_key)
        usage_percentage == UsagePercentage(usage_count, L[license_key])
    IN  [license_key |-> license_key,
         current_usage |-> usage_count,
         max_usage |-> L[license_key],
         available |-> L[license_key] - usage_count,
         usage_percentage |-> Round2(usage_percentage),
         severity |-> UsageSeverity(usage_percentage)]

\* the filter with > for >=
GetOverusedLicensesAbove(L, A, threshold_percent, order) ==
    LET Over(k) ==
            LET p == UsagePercentage(CountAssignments(A, k), L[k])
            IN  GE(p, threshold_percent) /\ ~(p.num = threshold_percent * p.den)
        overused == Map(SelectSeq(order, Over),
                        [k \in DOMAIN L |-> OverusedAlert(L, A, k)])
    IN  Sorted(overused, [o \in Range(overused) |-> <<-o.usage_percentage.num>>])

\* get_overused_licenses(threshold_percent); order: the order in which the
\* query returns the licenses.  A rounded percentage is a number of
\* hundredths, which is its sort key
GetOverusedLicenses(L, A, threshold_percent, order) ==
    LET Over(k) ==
            GE(UsagePercentage(CountAssignments(A, k), L[k]), threshold_percent)
        overused == Map(SelectSeq(order, Over),
                        [k \in DOMAIN L |-> OverusedAlert(L, A, k)])
    IN  Sorted(overused, [o \in Range(overused) |-> <<-o.usage_percentage.num>>])

\* the dict get_expiring_licenses appends for a license (without its message
\* and the name and vendor columns); V: the valid_to column
ExpiringAlert(V, A, license_key) ==
    LET days_until_expiry == V[license_key] - Today
    IN  [license_key |-> license_key,
         valid_to |-> V[license_key],
         days_until_expiry |-> days_until_expiry,
         assigned_devices |-> CountAssignments(A, license_key),
         severity |-> ExpirySeverity(days_until_expiry)]

\* the query without its lower bound valid_to >= today
GetExpiringLicensesNoFloor(V, A, days, order) ==
    LET threshold_date == Today + days
        Expiring(k) == V[k] <= threshold_date
        alerts == Map(SelectSeq(order, Expiring),
                      [k \in DOMAIN V |-> ExpiringAlert(V, A, k)])
    IN  Sorted(alerts, [a \in Range(alerts) |-> <<a.days_until_expiry>>])

\* get_expiring_licenses(days); order: the order in which the table holds the
\* licenses, which is the order the filtered query returns them in
GetExpiringLicenses(V, A, days, order) ==
    LET threshold_date == Today + days
        Expiring(k) == V[k] <= threshold_date /\ V[k] >= Today
        alerts == Map(SelectSeq(order, Expiring),
                      [k \in DOMAIN V |-> ExpiringAlert(V, A, k)])
    IN  Sorted(alerts, [a \in Range(alerts) |-> <<a.days_until_expiry>>])

\* _get_device_risk_message: the parts that are joined, each the number and
\* the words that follow it
GetDeviceRiskMessage(expired_count, expiring_soon) ==
    (IF expired_count > 0
       THEN <<<<expired_count,
                IF expired_count # 1 THEN "expired licenses" ELSE "expired license">>>>
       ELSE <<>>)
    \o (IF expiring_soon > 0 THEN <<<<expiring_soon, "expiring soon">>>> ELSE <<>>)

\* the assignments of a device whose license has valid_to < today
ExpiredOf(V, A, device_id) ==
    {a \in A : a.device_id = device_id /\ V[a.license_key] < Today}

\* the second class with < for <=: a license expiring on the threshold date
\* is left out
ExpiringSoonOfStrict(V, A, device_id, threshold_date) ==
    {a \in A : /\ a.device_id = device_id
               /\ ~(V[a.license_key] < Today)
               /\ V[a.license_key] < threshold_date}

\* ... and those of the others whose license has valid_to <= threshold_date
ExpiringSoonOf(V, A, device_id, threshold_date) ==
    {a \in A : /\ a.device_id = device_id
               /\ ~(V[a.license_key] < Today)
               /\ V[a.license_key] <= threshold_date}

\* the dict get_devices_at_risk appends for a device (without the type,
\* location and ip columns and the two lists of license names)
DeviceAtRisk(V, A, device_id, threshold_date) ==
    LET expired_count == Cardinality(ExpiredOf(V, A, device_id))
        expiring_soon_count ==
            Cardinality(ExpiringSoonOf(V, A, device_id, threshold_date))
    IN  [device_id |-> device_id,
         expired_licenses |-> expired_count,
         expiring_soon |-> expiring_soon_count,
         severity |-> IF expired_count > 0 THEN "CRITICAL" ELSE "WARNING",
         message |-> GetDeviceRiskMessage(expired_count, expiring_soon_count)]

\* the sort key with the expired count not negated: fewest expired first
DeviceRiskKeyAscending(d) == <<IF d.severity = "WARNING" THEN 1 ELSE 0, d.expired_licenses>>

\* key=lambda x: (x['severity'] == 'WARNING', -x['expired_licenses'])
DeviceRiskKey(d) == <<IF d.severity = "WARNING" THEN 1 ELSE 0, -d.expired_licenses>>

\* AlertService.get_devices_at_risk(days_threshold); St: the status column,
\* order: the order in which the table holds the devices
GetDevicesAtRisk(V, A, St, days_threshold, order) ==
    LET threshold_date == Today + days_threshold
        Active(d) == St[d] = "ACTIVE"
        devs == SelectSeq(order, Active)
        Issues(d) ==
            \/ Cardinality(ExpiredOf(V, A, d)) > 0
            \/ Cardinality(ExpiringSoonOf(V, A, d, threshold_date)) > 0
        at_risk == Map(SelectSeq(devs, Issues),
                       [d \in DOMAIN St |-> DeviceAtRisk(V, A, d, threshold_date)])
    IN  Sorted(at_risk, [d \in Range(at_risk) |-> DeviceRiskKey(d)])

\* ---------------------------------------------------------------- MCPHandlers
\* MCPHandlers.get_devices_at_risk({"days_threshold": ...})
McpGetDevicesAtRisk(V, A, St, days_threshold, order) ==
    LET threshold_date == Today + days_threshold
        Active(d) == St[d] = "ACTIVE"
        devs == SelectSeq(order, Active)
        Issues(d) ==
            \/ Cardinality(ExpiredOf(V, A, d)) > 0
            \/ Cardinality(ExpiringSoonOf(V, A, d, threshold_date)) > 0
        at_risk == Map(SelectSeq(devs, Issues),
                       [d \in DOMAIN St |->
                           [device_id |-> d,
                            expired_licenses |-> Cardinality(ExpiredOf(V, A, d)),
                            expiring_soon |->
                                Cardinality(ExpiringSoonOf(V, A, d, threshold_date))]])
    IN  [days_threshold |-> days_threshold,
         total_devices_at_risk |-> Len(at_risk),
         devices |-> at_risk]

\* len([a for a in alerts if a['severity'] == 'CRITICAL'])
CountCritical(alerts) ==
    Cardinality({i \in 1..Len(alerts) : alerts[i].severity = "CRITICAL"})

\* AlertService.get_dashboard_summary (without timestamp); D: the device ids,
\* lorder, dorder: the orders in which the tables hold licenses and devices
GetDashboardSummary(L, V, A, D, St, lorder, dorder) ==
    LET expiring_licenses == GetExpiringLicenses(V, A, 30, lorder)
        overused_licenses == GetOverusedLicenses(L, A, 75, lorder)
        devices_at_risk == GetDevicesAtRisk(V, A, St, 15, dorder)
    IN  [total_devices |-> Cardinality(D),
         active_devices |-> Cardinality({d \in D : St[d] = "ACTIVE"}),
         maintenance_devices |-> Cardinality({d \in D : St[d] = "MAINTENANCE"}),
         decommissioned_devices |-> Cardinality({d \in D : St[d] = "DECOMMISSIONED"}),
         total_licenses |-> Cardinality(DOMAIN L),
         expired_licenses |-> Cardinality({k \in DOMAIN L : V[k] < Today}),
         expiring_licenses_count |-> Len(expiring_licenses),
         overused_licenses_count |-> Len(overused_licenses),
         devices_at_risk_count |-> Len(devices_at_risk),
         critical_alerts |-> CountCritical(expiring_licenses)
                               + CountCritical(overused_licenses)
                               + CountCritical(devices_at_risk)]

\* the 60-day bucket not closed off below: if for elif
AlertBucketsOverlapping(days_until_expiry) ==
    (IF days_until_expiry < 0 THEN {"expired"}
     ELSE IF days_until_expiry <= 30 THEN {"expiring_30_days"}
     ELSE IF days_until_expiry > 60 THEN {"valid"} ELSE {})
    \cup (IF 0 <= days_until_expiry /\ days_until_expiry <= 60
            THEN {"expiring_60_days"} ELSE {})

\* get_license_compliance_report: the counters a license adds 1 to
AlertBuckets(days_until_expiry) ==
    IF days_until_expiry < 0 THEN {"expired"}
    ELSE IF days_until_expiry <= 30 THEN {"expiring_30_days"}
    ELSE IF days_until_expiry <= 60 THEN {"expiring_60_days"}
    ELSE {"valid"}

\* AlertService.get_license_compliance_report (without generated_at)
GetLicenseComplianceReport(L, V, A) ==
    LET all_licenses == DOMAIN L
        Count(bucket) ==
            Cardinality({k \in all_licenses : bucket \in AlertBuckets(V[k] - Today)})
        valid_count == Count("valid")
        \* usage >= license.max_usage * 0.9, which is 10 * usage >= 9 * max_usage
        overused_count ==
            Cardinality({k \in all_licenses : 10 * CountAssignments(A, k) >= 9 * L[k]})
    IN  [total_licenses |-> Cardinality(all_licenses),
         valid_licenses |-> valid_count,
         expiring_within_30_days |-> Count("expiring_30_days"),
         expiring_within_60_days |-> Count("expiring_60_days"),
         expired_licenses |-> Count("expired"),
         overused_licenses |-> overused_count,
         compliance_rate |-> IF all_licenses # {}
                               THEN Round2(Float(valid_count * 100,
                                                 Cardinality(all_licenses)))
                               ELSE Float(0, 1)]

\* ------------------------------------------------------------ ReportService
\* generate_license_compliance_report: license_data (without the name, vendor,
\* valid_from and license_type columns)
LicenseData(L, V, A, license_key) ==
    LET usage_count == CountAssignments(A, license_key)
    IN  [license_key |-> license_key,
         valid_to |-> V[license_key],
         days_until_expiry |-> V[license_key] - Today,
         max_usage |-> L[license_key],
         current_usage |-> usage_count,
         usage_percentage |-> Round2(UsagePercentage(usage_count, L[license_key]))]

\* Categorize by expiry: the list license_data is appended to
ReportBucket(days_until_expiry) ==
    IF days_until_expiry < 0 THEN "expired"
    ELSE IF days_until_expiry <= 30 THEN "expiring_30_days"
    ELSE IF days_until_expiry <= 60 THEN "expiring_60_days"
    ELSE "valid"

\* ReportService.generate_license_compliance_report (without report_date);
\* order: the order in which the query returns the licenses
GenerateLicenseComplianceReport(L, V, A, order) ==
    LET data == [k \in DOMAIN L |-> LicenseData(L, V, A, k)]
        Pct(k) == UsagePercentage(CountAssignments(A, k), L[k])
        InBucket(bucket) ==
            LET Test(k) == ReportBucket(V[k] - Today) = bucket
            IN  Map(SelectSeq(order, Test), data)
        Overused(k) == GE(Pct(k), 90)
        Underutilized(k) == ~GE(Pct(k), 90) /\ ~GE(Pct(k), 30)
        valid_licenses == InBucket("valid")
        expiring_30_days == InBucket("expiring_30_days")
        expiring_60_days == InBucket("expiring_60_days")
        expired_licenses == InBucket("expired")
        overused_licenses == Map(SelectSeq(order, Overused), data)
        underutilized_licenses == Map(SelectSeq(order, Underutilized), data)
    IN  [total_licenses |-> Len(order),
         summary |-> [valid |-> Len(valid_licenses),
                      expiring_30_days |-> Len(expiring_30_days),
                      expiring_60_days |-> Len(expiring_60_days),
                      expired |-> Len(expired_licenses),
                      overused |-> Len(overused_licenses),
                      underutilized |-> Len(underutilized_licenses)],
         valid_licenses |-> valid_licenses,
         expiring_30_days |-> expiring_30_days,
         expiring_60_days |-> expiring_60_days,
         expired_licenses |-> expired_licenses,
         overused_licenses |-> overused_licenses,
         underutilized_licenses |-> underutilized_licenses,
         compliance_rate |-> IF Len(order) > 0
                               THEN Round2(Float(Len(valid_licenses) * 100, Len(order)))
                               ELSE Float(0, 1)]

\* ------------------------------------------------------------------- Init
Init ==
    /\ licenses \in {f \in [LicenseKeys -> 0..MaxUsage] : f["LIC-1"] <= f["LIC-2"]}
    /\ devices = DeviceIds
    /\ assignments = {}
    /\ audit_calls = <<>>
    /\ pc = [p \in Procs |-> "idle"]
    /\ req = [p \in Procs |-> NoReq]
    /\ loc = [p \in Procs |-> NoLoc]
    /\ result = [p \in Procs |-> NoResult]
    /\ pre = [p \in Procs |-> NoPre]
    /\ nreq = 0
    /\ issued = 0
    /\ valid_to = [k \in LicenseKeys |-> Today + 365]
    /\ valid_from = [k \in LicenseKeys |-> Today - 365]
    /\ status = [d \in DeviceIds |-> "ACTIVE"]
    /\ report = NoReport

Free(p) == pc[p] \in {"idle", "done"}

\* a request is handed to the first free handler
Accepts(p) ==
    /\ Free(p)
    /\ \A q \in Procs : q < p => ~Free(q)
    /\ nreq < MaxRequests

\* the request is taken up: the store as it is now is remembered
Arrive(p, r) ==
    /\ req' = [req EXCEPT ![p] = r]
    /\ pre' = [pre EXCEPT ![p] = [licenses |-> licenses, devices |-> devices,
                                  assignments |-> assignments,
                                  audit |-> Len(audit_calls),
                                  valid_to |-> valid_to, valid_from |-> valid_from,
                                  status |-> status]]
    /\ nreq' = nreq + 1

\* the handler goes on to step `next` with locals l
Goto(p, next, l) ==
    /\ pc' = [pc EXCEPT ![p] = next]
    /\ loc' = [loc EXCEPT ![p] = l]
    /\ result' = [result EXCEPT ![p] = NoResult]

\* the handler raises or returns: r is the response
Respond(p, r) ==
    /\ pc' = [pc EXCEPT ![p] = "done"]
    /\ loc' = [loc EXCEPT ![p] = NoLoc]
    /\ result' = [result EXCEPT ![p] = r]

\* ------------------------------------------------- POST /api/assignments
\* the endpoint's RBAC check, then create_assignment: Verify license exists
AssignBegin(p) ==
    /\ Accepts(p)
    /\ \E u \in UserIds, l \in LicenseKeys \cup {NoLicense},
          d \in DeviceIds \cup {NoDevice}, by \in UserIds :
         /\ Arrive(p, [NoReq EXCEPT !.op = "assign", !.user = u, !.license_key = l,
                                    !.device_id = d, !.assigned_by = by])
         /\ IF ~MayAssign(u)
              THEN Respond(p, HTTPException(403, "forbidden"))
              ELSE IF l \notin DOMAIN licenses
                     THEN Respond(p, HTTPException(404, "license_not_found"))
                     ELSE Goto(p, "a_device", [NoLoc EXCEPT !.max_usage = licenses[l]])
    /\ UNCHANGED <<licenses, devices, valid_to, valid_from, status, report, assignments, audit_calls, issued>>

\* Verify device exists
AssignDevice(p) ==
    /\ pc[p] = "a_device"
    /\ IF req[p].device_id \in devices
         THEN Goto(p, "a_existing", loc[p])
         ELSE Respond(p, HTTPException(404, "device_not_found"))
    /\ UNCHANGED <<licenses, devices, valid_to, valid_from, status, report, assignments, audit_calls, req, pre, nreq, issued>>

\* the duplicate check and the limit check in the wrong order
AssignExistingAfterLimit(p) ==
    /\ pc[p] = "a_existing"
    /\ LET current_usage == CountAssignments(assignments, req[p].license_key)
       IN  IF CapacityReached(current_usage, loc[p].max_usage)
             THEN Respond(p, [HTTPException(400, "maximum_usage") EXCEPT
                                 !.current_usage = current_usage,
                                 !.max_usage = loc[p].max_usage])
             ELSE IF FindExisting(assignments, req[p].license_key, req[p].device_id) = {}
                    THEN Goto(p, "a_insert", loc[p])
                    ELSE Respond(p, HTTPException(400, "already_assigned"))
    /\ UNCHANGED <<licenses, devices, valid_to, valid_from, status, report, assignments, audit_calls, req, pre, nreq, issued>>

\* Check if already assigned
AssignExisting(p) ==
    /\ pc[p] = "a_existing"
    /\ IF FindExisting(assignments, req[p].license_key, req[p].device_id) = {}
         THEN Goto(p, "a_count", loc[p])
         ELSE Respond(p, HTTPException(400, "already_assigned"))
    /\ UNCHANGED <<licenses, devices, valid_to, valid_from, status, report, assignments, audit_calls, req, pre, nreq, issued>>

\* Check max usage limit; license.max_usage is the value the session loaded
AssignCount(p) ==
    /\ pc[p] = "a_count"
    /\ LET current_usage == CountAssignments(assignments, req[p].license_key)
       IN  IF CapacityReached(current_usage, loc[p].max_usage)
             THEN Respond(p, [HTTPException(400, "maximum_usage") EXCEPT
                                 !.current_usage = current_usage,
                                 !.max_usage = loc[p].max_usage])
             ELSE Goto(p, "a_insert", loc[p])
    /\ UNCHANGED <<licenses, devices, valid_to, valid_from, status, report, assignments, audit_calls, req, pre, nreq, issued>>

\* Create assignment: uuid4(), add, commit, refresh
AssignInsert(p) ==
    /\ pc[p] = "a_insert"
    /\ LET a == Assignment(Uuid4(issued), req[p].license_key, req[p].device_id,
                           req[p].assigned_by)
       IN  /\ assignments' = assignments \cup {a}
           /\ Goto(p, "a_audit", [loc[p] EXCEPT !.assignment = {a}])
    /\ issued' = issued + 1
    /\ UNCHANGED <<licenses, devices, valid_to, valid_from, status, report, audit_calls, req, pre, nreq>>

\* the audit failure taking the assignment with it: the row is deleted again
\* and the request fails
AssignAuditRollsBack(p, oks) ==
    /\ pc[p] = "a_audit"
    /\ \E ok \in oks, a \in loc[p].assignment :
         /\ audit_calls' = LogAction(audit_calls, req[p].user, "ASSIGNMENT",
                                     a.assignment_id, "ASSIGN",
                                     a.license_key, a.device_id, ok)
         /\ assignments' = IF ok THEN assignments ELSE assignments \ {a}
         /\ Respond(p, IF ok THEN [NoResult EXCEPT !.status_code = 200,
                                                   !.detail = "assigned",
                                                   !.assignment = {a}]
                             ELSE HTTPException(500, "audit_failed"))
    /\ UNCHANGED <<licenses, devices, valid_to, valid_from, status, report, req, pre, nreq, issued>>

\* the endpoint's audit.log_action(...) and return assignment; oks: whether
\* the audit commit can succeed (TRUE) and whether it can fail (FALSE)
AssignAudit(p, oks) ==
    /\ pc[p] = "a_audit"
    /\ \E ok \in oks, a \in loc[p].assignment :
         /\ audit_calls' = LogAction(audit_calls, req[p].user, "ASSIGNMENT",
                                     a.assignment_id, "ASSIGN",
                                     a.license_key, a.device_id, ok)
         /\ Respond(p, [NoResult EXCEPT !.status_code = 200, !.detail = "assigned",
                                        !.assignment = {a}])
    /\ UNCHANGED <<licenses, devices, valid_to, valid_from, status, report, assignments, req, pre, nreq, issued>>

\* --------------------------------- DELETE /api/assignments/{assignment_id}
\* the two fields of the returned dict mixed up
DeletedSwapped(a) ==
    [NoResult EXCEPT !.status_code = 200, !.detail = "deleted",
                     !.license_key = a.device_id, !.device_id = a.license_key]

\* what delete_assignment returns
Deleted(a) ==
    [NoResult EXCEPT !.status_code = 200, !.detail = "deleted",
                     !.license_key = a.license_key, !.device_id = a.device_id]

\* the endpoint's RBAC check and its own query of the assignment
ReleaseBegin(p) ==
    /\ Accepts(p)
    /\ \E u \in UserIds, id \in 0..issued :   \* 0: an id never generated
         /\ Arrive(p, [NoReq EXCEPT !.op = "release", !.user = u,
                                    !.assignment_id = id])
         /\ IF ~MayUnassign(u)
              THEN Respond(p, HTTPException(403, "forbidden"))
              ELSE Goto(p, "r_get", [NoLoc EXCEPT !.peek = FindAssignment(assignments, id)])
    /\ UNCHANGED <<licenses, devices, valid_to, valid_from, status, report, assignments, audit_calls, issued>>

\* delete_assignment: self.get_assignment_by_id(assignment_id)
ReleaseGet(p) ==
    /\ pc[p] = "r_get"
    /\ LET found == FindAssignment(assignments, req[p].assignment_id)
       IN  IF found = {}
             THEN Respond(p, HTTPException(404, "assignment_not_found"))
             ELSE Goto(p, "r_delete", [loc[p] EXCEPT !.assignment = found])
    /\ UNCHANGED <<licenses, devices, valid_to, valid_from, status, report, assignments, audit_calls, req, pre, nreq, issued>>

\* what db.delete + db.commit can do when the row is already gone: the DELETE
\* matches no row, which the ORM only warns about, or the store refuses the
\* transaction
StaleDeleteOutcomes == {"warn", "error"}

\* the delete filtered by license_key: every assignment of the license goes
ReleaseDeleteByLicense(p) ==
    /\ pc[p] = "r_delete"
    /\ LET row == FindAssignment(assignments, req[p].assignment_id)
       IN  \E outcome \in (IF row # {} THEN {"deleted"} ELSE StaleDeleteOutcomes),
              a \in loc[p].assignment :
             /\ assignments' = {b \in assignments : b.license_key # a.license_key}
             /\ IF outcome = "error"
                  THEN Respond(p, HTTPException(500, "store_error"))
                  ELSE IF loc[p].peek = {}
                         THEN Respond(p, Deleted(a))
                         ELSE Goto(p, "r_audit", loc[p])
    /\ UNCHANGED <<licenses, devices, valid_to, valid_from, status, report, audit_calls, req, pre, nreq, issued>>

\* db.delete(assignment); db.commit(); return {...}
ReleaseDelete(p) ==
    /\ pc[p] = "r_delete"
    /\ LET row == FindAssignment(assignments, req[p].assignment_id)
       IN  \E outcome \in (IF row # {} THEN {"deleted"} ELSE StaleDeleteOutcomes),
              a \in loc[p].assignment :
             /\ assignments' = assignments \ row
             /\ IF outcome = "error"
                  THEN Respond(p, HTTPException(500, "store_error"))
                  ELSE IF loc[p].peek = {}
                         THEN Respond(p, Deleted(a))
                         ELSE Goto(p, "r_audit", loc[p])
    /\ UNCHANGED <<licenses, devices, valid_to, valid_from, status, report, audit_calls, req, pre, nreq, issued>>

\* the endpoint returning without the audit call
ReleaseAuditSkipped(p, oks) ==
    /\ pc[p] = "r_audit"
    /\ \E a \in loc[p].assignment : Respond(p, Deleted(a))
    /\ UNCHANGED <<licenses, devices, valid_to, valid_from, status, report, assignments, audit_calls, req, pre, nreq, issued>>

\* if assignment: audit.log_action(...); return result
ReleaseAudit(p, oks) ==
    /\ pc[p] = "r_audit"
    /\ \E ok \in oks, a \in loc[p].assignment, info \in loc[p].peek :
         /\ audit_calls' = LogAction(audit_calls, req[p].user, "ASSIGNMENT",
                                     req[p].assignment_id, "UNASSIGN",
                                     info.license_key, info.device_id, ok)
         /\ Respond(p, Deleted(a))
    /\ UNCHANGED <<licenses, devices, valid_to, valid_from, status, report, assignments, req, pre, nreq, issued>>

\* ------------------------------------------------------------ specifications
\* requests interleave step by step; the audit recorder works
Next ==
    \E p \in Procs :
        \/ AssignBegin(p)
        \/ AssignDevice(p)
        \/ AssignExisting(p)
        \/ AssignCount(p)
        \/ AssignInsert(p)
        \/ AssignAudit(p, {TRUE})
        \/ ReleaseBegin(p)
        \/ ReleaseGet(p)
        \/ ReleaseDelete(p)
        \/ ReleaseAudit(p, {TRUE})

Spec == Init /\ [][Next]_vars

\* one request at a time: a handler steps only while no other is at work;
\* the audit recorder may fail
Alone(p) == \A q \in Procs \ {p} : Free(q)

NextSeq ==
    \E p \in Procs :
        \/ Alone(p) /\ AssignBegin(p)
        \/ Alone(p) /\ AssignDevice(p)
        \/ Alone(p) /\ AssignExisting(p)
        \/ Alone(p) /\ AssignCount(p)
        \/ Alone(p) /\ AssignInsert(p)
        \/ Alone(p) /\ AssignAudit(p, BOOLEAN)
        \/ Alone(p) /\ ReleaseBegin(p)
        \/ Alone(p) /\ ReleaseGet(p)
        \/ Alone(p) /\ ReleaseDelete(p)
        \/ Alone(p) /\ ReleaseAudit(p, BOOLEAN)

SpecSeq == Init /\ [][NextSeq]_vars

\* ------------------------------------------------------------ usage reports
\* no request is being served and none was
Quiet ==
    /\ audit_calls = <<>>
    /\ pc = [p \in Procs |-> "idle"]
    /\ req = [p \in Procs |-> NoReq]
    /\ loc = [p \in Procs |-> NoLoc]
    /\ result = [p \in Procs |-> NoResult]
    /\ pre = [p \in Procs |-> NoPre]
    /\ nreq = 0

\* the assignments of license k to the first n devices; ids from base + 1 on
AssignedToFirst(k, n, base) ==
    {Assignment(base + i, k, FleetNames[i], "u-eng") : i \in 1..n}

\* a store of two licenses with any max_usage in 0..MaxCap and any number
\* 0..MaxCap of assignments each (a license can hold more than its max_usage
\* after its capacity was lowered)
InitUsage ==
    /\ licenses \in [LicenseKeys -> 0..MaxCap]
    /\ devices = {FleetNames[i] : i \in 1..MaxCap}
    /\ \E n \in [LicenseKeys -> 0..MaxCap] :
         assignments = AssignedToFirst("LIC-1", n["LIC-1"], 0)
                         \cup AssignedToFirst("LIC-2", n["LIC-2"], MaxCap)
    /\ issued = 2 * MaxCap
    /\ valid_to = [k \in LicenseKeys |-> Today + 365]
    /\ valid_from = [k \in LicenseKeys |-> Today - 365]
    /\ status = [d \in devices |-> "ACTIVE"]
    /\ report = NoReport
    /\ Quiet

\* GET /api/licenses/{license_key}/utilization (every role may)
Utilization ==
    /\ \E license_key \in LicenseKeys \cup {NoLicense} :
         report' = [op |-> "utilization", license_key |-> license_key,
                    body |-> GetLicenseUtilization(licenses, assignments, license_key)]
    /\ UNCHANGED <<licenses, devices, valid_to, valid_from, status, assignments, audit_calls,
                   pc, req, loc, result, pre, nreq, issued>>

\* thresholds get_overused_licenses is called with (75: its default, the
\* dashboard's and the endpoint's)
Thresholds == {0, 50, 75, 100}

\* GET /api/alerts/overused, AlertService.get_overused_licenses(threshold)
Overused ==
    /\ \E threshold_percent \in Thresholds, order \in AllOrders(DOMAIN licenses) :
         report' = [op |-> "overused", threshold_percent |-> threshold_percent,
                    body |-> GetOverusedLicenses(licenses, assignments,
                                                 threshold_percent, order)]
    /\ UNCHANGED <<licenses, devices, valid_to, valid_from, status, assignments, audit_calls,
                   pc, req, loc, result, pre, nreq, issued>>

\* the store stays as it is: one report per behaviour shows all there is
NextUsage ==
    \/ report = NoReport /\ Utilization
    \/ report = NoReport /\ Overused

SpecUsage == InitUsage /\ [][NextUsage]_vars

\* ------------------------------------------------------ the severity scales
\* a store of two licenses without assignments, and the argument of the call
\* to come: a days_until_expiry in 0..MaxDays, or a percentage in hundredths
\* (as utilization_percent is) up to MaxPercent
InitSeverity ==
    /\ licenses = [k \in LicenseKeys |-> MaxUsage]
    /\ devices = DeviceIds
    /\ assignments = {}
    /\ issued = 0
    /\ valid_to = [k \in LicenseKeys |-> Today + 365]
    /\ valid_from = [k \in LicenseKeys |-> Today - 365]
    /\ status = [d \in devices |-> "ACTIVE"]
    /\ \/ \E d \in 0..MaxDays : report = [op |-> "days", days_until_expiry |-> d]
       \/ \E n \in 0..(MaxPercent * 100) :
            report = [op |-> "percentage", percentage |-> Float(n, 100)]
    /\ Quiet

\* self._get_expiry_severity(days_until_expiry)
GetExpirySeverity ==
    /\ report.op = "days"
    /\ report' = [op |-> "expiry_severity",
                  days_until_expiry |-> report.days_until_expiry,
                  severity |-> ExpirySeverity(report.days_until_expiry)]
    /\ UNCHANGED <<licenses, devices, valid_to, valid_from, status, assignments, audit_calls,
                   pc, req, loc, result, pre, nreq, issued>>

\* self._get_usage_severity(usage_percentage), and the status tier of
\* get_license_utilization for the same percentage
GetUsageSeverity ==
    /\ report.op = "percentage"
    /\ report' = [op |-> "usage_severity", percentage |-> report.percentage,
                  severity |-> UsageSeverity(report.percentage),
                  status |-> UtilizationStatus(report.percentage)]
    /\ UNCHANGED <<licenses, devices, valid_to, valid_from, status, assignments, audit_calls,
                   pc, req, loc, result, pre, nreq, issued>>

NextSeverity == GetExpirySeverity \/ GetUsageSeverity

SpecSeverity == InitSeverity /\ [][NextSeverity]_vars

\* ----------------------------------------------------------- expiry reports
\* valid_to - today of the licenses of these stores: the boundaries of the
\* severities and of the compliance buckets, and three days in between
DayOffsets == {-1, 0, 5, 7, 8, 15, 16, 20, 29, 30, 31, 60, 61}

\* a store of up to three licenses with any of these valid_to (the later key
\* the later date: the reports see the licenses in any order anyway), and one
\* assignment or none
InitExpiry ==
    /\ \E n \in 0..Len(ExpiryKeys) :
         LET keys == {ExpiryKeys[i] : i \in 1..n}
         IN  /\ licenses = [k \in keys |-> MaxUsage]
             /\ valid_from = [k \in keys |-> Today - 365]
             /\ valid_to \in {v \in [keys -> {Today + d : d \in DayOffsets}] :
                                \A i, j \in 1..n :
                                    i < j => v[ExpiryKeys[i]] <= v[ExpiryKeys[j]]}
             /\ assignments \in {AssignedToFirst(ExpiryKeys[1], m, 0) :
                                   m \in 0..(IF n > 0 /\ MaxUsage > 0 THEN 1 ELSE 0)}
    /\ devices = DeviceIds
    /\ issued = 1
    /\ status = [d \in devices |-> "ACTIVE"]
    /\ report = NoReport
    /\ Quiet

\* lookaheads get_expiring_licenses is called with (the endpoints take
\* 1..365; 30: the default and the dashboard's)
Lookaheads == {1, 7, 30, 61}

\* GET /api/alerts/expiring?days=
Expiring ==
    /\ \E days \in Lookaheads, order \in AllOrders(DOMAIN licenses) :
         report' = [op |-> "expiring", days |-> days,
                    body |-> GetExpiringLicenses(valid_to, assignments, days, order)]
    /\ UNCHANGED <<licenses, devices, valid_to, valid_from, status, assignments, audit_calls,
                   pc, req, loc, result, pre, nreq, issued>>

\* AlertService.get_license_compliance_report()
AlertCompliance ==
    /\ report' = [op |-> "alert_compliance",
                  body |-> GetLicenseComplianceReport(licenses, valid_to, assignments)]
    /\ UNCHANGED <<licenses, devices, valid_to, valid_from, status, assignments, audit_calls,
                   pc, req, loc, result, pre, nreq, issued>>

\* GET /api/reports/license-compliance
ReportCompliance ==
    /\ \E order \in AllOrders(DOMAIN licenses) :
         report' = [op |-> "report_compliance",
                    body |-> GenerateLicenseComplianceReport(licenses, valid_to,
                                                             assignments, order)]
    /\ UNCHANGED <<licenses, devices, valid_to, valid_from, status, assignments, audit_calls,
                   pc, req, loc, result, pre, nreq, issued>>

NextExpiry ==
    \/ report = NoReport /\ Expiring
    \/ report = NoReport /\ AlertCompliance
    \/ report = NoReport /\ ReportCompliance

SpecExpiry == InitExpiry /\ [][NextExpiry]_vars

\* ------------------------------------------------------- device risk reports
\* valid_to - today of the licenses of these stores: expired, expiring today,
\* expiring on the default threshold date, and a day later
RiskOffsets == {-1, 0, 15, 16}

\* a store of three devices (one of them in any status) and three licenses
\* with any of these valid_to, and any set of assignments with at most one
\* per pair
InitFleet ==
    /\ LET keys == {ExpiryKeys[i] : i \in 1..Len(ExpiryKeys)}
       IN  /\ licenses = [k \in keys |-> Cardinality(DeviceIds)]
           /\ valid_from = [k \in keys |-> Today - 365]
           /\ valid_to \in {v \in [keys -> {Today + d : d \in RiskOffsets}] :
                              \A i, j \in 1..Len(ExpiryKeys) :
                                  i < j => v[ExpiryKeys[i]] <= v[ExpiryKeys[j]]}
           /\ \E pairs \in SUBSET ((1..Len(ExpiryKeys)) \X (1..Cardinality(DeviceIds))) :
                assignments = {Assignment(Cardinality(DeviceIds) * (pr[1] - 1) + pr[2],
                                          ExpiryKeys[pr[1]], FleetNames[pr[2]], "u-eng") :
                               pr \in pairs}
    /\ devices = DeviceIds
    /\ issued = Len(ExpiryKeys) * Cardinality(DeviceIds)
    /\ status \in {st \in [devices -> DeviceStatus] :
                     \A d \in devices \ {"DEV-C"} : st[d] = "ACTIVE"}
    /\ report = NoReport
    /\ Quiet

\* thresholds the device risk reports are called with (15: the default, the
\* dashboard's and the endpoint's)
RiskThresholds == {0, 15}

\* AlertService.get_devices_at_risk(days_threshold) (GET /api/alerts)
DevicesAtRisk ==
    /\ \E days_threshold \in RiskThresholds, order \in AllOrders(devices) :
         report' = [op |-> "devices_at_risk", days_threshold |-> days_threshold,
                    body |-> GetDevicesAtRisk(valid_to, assignments, status,
                                              days_threshold, order)]
    /\ UNCHANGED <<licenses, devices, valid_to, valid_from, status, assignments, audit_calls,
                   pc, req, loc, result, pre, nreq, issued>>

\* the MCP tool get_devices_at_risk
McpDevicesAtRisk ==
    /\ \E days_threshold \in RiskThresholds, order \in AllOrders(devices) :
         LET r == McpGetDevicesAtRisk(valid_to, assignments, status,
                                      days_threshold, order)
         IN  report' = [op |-> "mcp_devices_at_risk",
                        days_threshold |-> r.days_threshold,
                        total_devices_at_risk |-> r.total_devices_at_risk,
                        body |-> r.devices]
    /\ UNCHANGED <<licenses, devices, valid_to, valid_from, status, assignments, audit_calls,
                   pc, req, loc, result, pre, nreq, issued>>

NextFleet ==
    \/ report = NoReport /\ DevicesAtRisk
    \/ report = NoReport /\ McpDevicesAtRisk

SpecFleet == InitFleet /\ [][NextFleet]_vars

\* ------------------------------------------- the dashboard between requests
\* a store without assignments: an expired license and one 5 or 10 days from
\* expiry, an active device and one in maintenance
InitDash ==
    /\ licenses \in {f \in [LicenseKeys -> 0..MaxUsage] : f["LIC-1"] <= f["LIC-2"]}
    /\ devices = {"DEV-A", "DEV-B"}
    /\ assignments = {}
    /\ issued = 0
    /\ valid_to \in {v \in [LicenseKeys -> {Today - 1, Today + 5, Today + 10}] :
                       v["LIC-1"] = Today - 1 /\ v["LIC-2"] > Today}
    /\ valid_from = [k \in LicenseKeys |-> Today - 365]
    /\ status = [d \in devices |-> IF d = "DEV-B" THEN "MAINTENANCE" ELSE "ACTIVE"]
    /\ report = NoReport
    /\ Quiet

\* the dashboard answering from the summary it computed last time
DashboardCached ==
    /\ \A p \in Procs : Free(p)
    /\ \E lorder \in AllOrders(DOMAIN licenses), dorder \in AllOrders(devices) :
         report' = [op |-> "dashboard", seen |-> assignments,
                    body |-> IF report.op = "dashboard"
                               THEN report.body
                               ELSE GetDashboardSummary(licenses, valid_to, assignments,
                                                        devices, status, lorder, dorder)]
    /\ UNCHANGED <<licenses, devices, valid_to, valid_from, status, assignments, audit_calls,
                   pc, req, loc, result, pre, nreq, issued>>

\* GET /api/dashboard/summary while no other request is being served; seen:
\* the assignments table as the request found it
Dashboard ==
    /\ \A p \in Procs : Free(p)
    /\ \E lorder \in AllOrders(DOMAIN licenses), dorder \in AllOrders(devices) :
         report' = [op |-> "dashboard", seen |-> assignments,
                    body |-> GetDashboardSummary(licenses, valid_to, assignments,
                                                 devices, status, lorder, dorder)]
    /\ UNCHANGED <<licenses, devices, valid_to, valid_from, status, assignments, audit_calls,
                   pc, req, loc, result, pre, nreq, issued>>

\* Assign, Release and dashboard requests, one at a time
NextDash ==
    \/ Dashboard
    \/ \E p \in Procs :
        \/ Alone(p) /\ nreq < MaxMutations /\ AssignBegin(p)
        \/ Alone(p) /\ AssignDevice(p)
        \/ Alone(p) /\ AssignExisting(p)
        \/ Alone(p) /\ AssignCount(p)
        \/ Alone(p) /\ AssignInsert(p)
        \/ Alone(p) /\ AssignAudit(p, {TRUE})
        \/ Alone(p) /\ nreq < MaxMutations /\ ReleaseBegin(p)
        \/ Alone(p) /\ ReleaseGet(p)
        \/ Alone(p) /\ ReleaseDelete(p)
        \/ Alone(p) /\ ReleaseAudit(p, {TRUE})

SpecDash == InitDash /\ [][NextDash]_vars

\* ------------------------------------------------------- compliance reports
\* valid_to - today of the first license of these stores: one day of each
\* expiry bucket
BucketOffsets == {-1, 30, 60, 61}

\* a store of two licenses: the first with any max_usage in 0..MaxCap, any
\* number 0..MaxCap of assignments and a valid_to in any bucket, the second
\* with max_usage MaxCap and any number of assignments
InitCompliance ==
    /\ licenses \in {f \in [LicenseKeys -> 0..MaxCap] : f["LIC-2"] = MaxCap}
    /\ devices = {FleetNames[i] : i \in 1..MaxCap}
    /\ \E n \in [LicenseKeys -> 0..MaxCap] :
         assignments = AssignedToFirst("LIC-1", n["LIC-1"], 0)
                         \cup AssignedToFirst("LIC-2", n["LIC-2"], MaxCap)
    /\ issued = 2 * MaxCap
    /\ valid_to \in {v \in [LicenseKeys -> {Today + d : d \in BucketOffsets \cup {365}}] :
                       v["LIC-1"] # Today + 365 /\ v["LIC-2"] = Today + 365}
    /\ valid_from = [k \in LicenseKeys |-> Today - 365]
    /\ status = [d \in devices |-> "ACTIVE"]
    /\ report = NoReport
    /\ Quiet

NextCompliance ==
    \/ report = NoReport /\ AlertCompliance
    \/ report = NoReport /\ ReportCompliance

SpecCompliance == InitCompliance /\ [][NextCompliance]_vars

\* ------------------------------------------- license and device endpoints
\* the administrator init_db.py creates
AdminId == "u-adm"

\* current_user.role.value
RoleOf(u) == IF u = AdminId THEN ADMIN ELSE UserRole[u]

\* table f without the row of key k
Without(f, k) == [x \in DOMAIN f \ {k} |-> f[x]]

\* table f with the row of key k set to v
With(f, k, v) == (k :> v) @@ f

\* an optional field of an update ({}: not set): the value the column gets
Or(field, stored) == IF field = {} THEN stored ELSE CHOOSE v \in field : TRUE

\* the request is refused: nothing is written
Refuse(p, status_code, detail) ==
    /\ Respond(p, HTTPException(status_code, detail))
    /\ UNCHANGED <<licenses, valid_from, valid_to, devices, status, assignments,
                   audit_calls>>

\* return license / return device / return {"message": ...}
Ok(detail, license_key, device_id) ==
    [NoResult EXCEPT !.status_code = 200, !.detail = detail,
                     !.license_key = license_key, !.device_id = device_id]

\* the deletion leaving the assignments of the deleted row behind
CascadeNone(A, license_key, device_id) == A

\* cascade="all, delete-orphan" on License.assignments and Device.assignments:
\* the assignments that stay when the license or the device is deleted
Cascade(A, license_key, device_id) ==
    {a \in A : a.license_key # license_key /\ a.device_id # device_id}

\* LicenseCreate bodies with their sender: a well-formed license of every
\* capacity, valid_to on and before valid_from, max_usage 0 and -1, an
\* unknown vendor; and an auditor's request
LicenseCreates ==
    LET Body(u, k, vendor, from, to, max) ==
            [op |-> "create_license", user |-> u, license_key |-> k,
             vendor_known |-> vendor, valid_from |-> from, valid_to |-> to,
             max_usage |-> max]
    IN  UNION {{Body(AdminId, k, TRUE, Today - 30, Today + 30, m) : m \in (-1)..MaxUsage}
               \cup {Body(AdminId, k, TRUE, Today - 30, Today + d, MaxUsage) :
                       d \in {-30, -31}}
               \cup {Body(AdminId, k, FALSE, Today - 30, Today + 30, MaxUsage),
                     Body("u-aud", k, TRUE, Today - 30, Today + 30, MaxUsage)} :
               k \in LicenseKeys}

\* POST /api/licenses, the whole handler; oks as in AssignAudit
CreateLicense(p, oks) ==
    /\ Accepts(p)
    /\ \E r \in LicenseCreates :
         /\ Arrive(p, r)
         /\ IF RoleOf(r.user) # ADMIN
              THEN Refuse(p, 403, "forbidden")
              ELSE IF r.license_key \in DOMAIN licenses
                THEN Refuse(p, 400, "already_exists")
              ELSE IF ~r.vendor_known
                THEN Refuse(p, 400, "vendor_not_found")
              ELSE /\ licenses' = With(licenses, r.license_key, r.max_usage)
                   /\ valid_from' = With(valid_from, r.license_key, r.valid_from)
                   /\ valid_to' = With(valid_to, r.license_key, r.valid_to)
                   /\ \E ok \in oks :
                        audit_calls' = LogAction(audit_calls, r.user, "LICENSE",
                                                 r.license_key, "CREATE",
                                                 r.license_key, "", ok)
                   /\ Respond(p, Ok("license", r.license_key, ""))
                   /\ UNCHANGED <<devices, status, assignments>>
    /\ UNCHANGED <<issued, report>>

\* LicenseUpdate bodies with their sender and the key of the path: nothing
\* set, max_usage set to every capacity and to 0 and -1, valid_to set to a day
\* after and to one before the stored valid_from, an unknown vendor; and an
\* auditor's request
LicenseUpdates ==
    LET Body(u, k, vendor, to, max) ==
            [op |-> "update_license", user |-> u, license_key |-> k,
             vendor_known |-> vendor, valid_to |-> to, max_usage |-> max]
    IN  UNION {{Body(AdminId, k, TRUE, {}, {})}
               \cup {Body(AdminId, k, TRUE, {}, {m}) : m \in (-1)..MaxUsage}
               \cup {Body(AdminId, k, TRUE, {Today + d}, {}) : d \in {60, -400}}
               \cup {Body(AdminId, k, FALSE, {}, {}),
                     Body("u-aud", k, TRUE, {}, {})} :
               k \in LicenseKeys \cup {NoLicense}}

\* PUT /api/licenses/{license_key}, the whole handler
UpdateLicense(p, oks) ==
    /\ Accepts(p)
    /\ \E r \in LicenseUpdates :
         /\ Arrive(p, r)
         /\ IF RoleOf(r.user) # ADMIN
              THEN Refuse(p, 403, "forbidden")
              ELSE IF r.license_key \notin DOMAIN licenses
                THEN Refuse(p, 404, "license_not_found")
              ELSE IF ~r.vendor_known
                THEN Refuse(p, 400, "vendor_not_found")
              ELSE /\ licenses' = With(licenses, r.license_key,
                                       Or(r.max_usage, licenses[r.license_key]))
                   /\ valid_to' = With(valid_to, r.license_key,
                                       Or(r.valid_to, valid_to[r.license_key]))
                   /\ \E ok \in oks :
                        audit_calls' = LogAction(audit_calls, r.user, "LICENSE",
                                                 r.license_key, "UPDATE",
                                                 r.license_key, "", ok)
                   /\ Respond(p, Ok("license", r.license_key, ""))
                   /\ UNCHANGED <<valid_from, devices, status, assignments>>
    /\ UNCHANGED <<issued, report>>

\* DELETE /api/licenses/{license_key}: the key of the path and the sender
LicenseDeletes ==
    {[op |-> "delete_license", user |-> u, license_key |-> k] :
       u \in {AdminId, "u-eng"}, k \in LicenseKeys \cup {NoLicense}}

\* DELETE /api/licenses/{license_key}, the whole handler
DeleteLicense(p, oks) ==
    /\ Accepts(p)
    /\ \E r \in LicenseDeletes :
         /\ Arrive(p, r)
         /\ IF RoleOf(r.user) # ADMIN
              THEN Refuse(p, 403, "forbidden")
              ELSE IF r.license_key \notin DOMAIN licenses
                THEN Refuse(p, 404, "license_not_found")
              ELSE /\ licenses' = Without(licenses, r.license_key)
                   /\ valid_from' = Without(valid_from, r.license_key)
                   /\ valid_to' = Without(valid_to, r.license_key)
                   /\ assignments' = Cascade(assignments, r.license_key, "")
                   /\ \E ok \in oks :
                        audit_calls' = LogAction(audit_calls, r.user, "LICENSE",
                                                 r.license_key, "DELETE",
                                                 r.license_key, "", ok)
                   /\ Respond(p, Ok("deleted", r.license_key, ""))
                   /\ UNCHANGED <<devices, status>>
    /\ UNCHANGED <<issued, report>>

\* the existence check left out: the row of the device is written over
DeviceExistsNever(D, device_id) == FALSE

\* db.query(Device).filter(device_id ==).first() found a row
DeviceExists(D, device_id) == device_id \in D

\* DeviceCreate bodies with their sender: a device in two of the statuses, a
\* malformed ip_address; and an auditor's request
DeviceCreates ==
    LET Body(u, d, ip, st) ==
            [op |-> "create_device", user |-> u, device_id |-> d,
             ip_valid |-> ip, status |-> st]
    IN  UNION {{Body("u-eng", d, TRUE, st) : st \in {"ACTIVE", "MAINTENANCE"}}
               \cup {Body("u-eng", d, FALSE, "ACTIVE"),
                     Body("u-aud", d, TRUE, "ACTIVE")} :
               d \in DeviceIds}

\* POST /api/devices, the whole handler; ip_valid: validate_ip_address(...)
CreateDevice(p, oks) ==
    /\ Accepts(p)
    /\ \E r \in DeviceCreates :
         /\ Arrive(p, r)
         /\ IF RoleOf(r.user) \notin {ADMIN, ENGINEER}
              THEN Refuse(p, 403, "forbidden")
              ELSE IF ~r.ip_valid
                THEN Refuse(p, 400, "invalid_ip")
              ELSE IF DeviceExists(devices, r.device_id)
                THEN Refuse(p, 400, "already_exists")
              ELSE /\ devices' = devices \cup {r.device_id}
                   /\ status' = With(status, r.device_id, r.status)
                   /\ \E ok \in oks :
                        audit_calls' = LogAction(audit_calls, r.user, "DEVICE",
                                                 r.device_id, "CREATE",
                                                 "", r.device_id, ok)
                   /\ Respond(p, Ok("device", "", r.device_id))
                   /\ UNCHANGED <<licenses, valid_from, valid_to, assignments>>
    /\ UNCHANGED <<issued, report>>

\* DeviceUpdate bodies with their sender and the id of the path: nothing set,
\* the status set, a malformed ip_address; and an auditor's request
DeviceUpdates ==
    LET Body(u, d, ip, st) ==
            [op |-> "update_device", user |-> u, device_id |-> d,
             ip_valid |-> ip, status |-> st]
    IN  UNION {{Body("u-eng", d, TRUE, st) :
                  st \in {{}, {"MAINTENANCE"}, {"DECOMMISSIONED"}}}
               \cup {Body("u-eng", d, FALSE, {}),
                     Body("u-aud", d, TRUE, {})} :
               d \in DeviceIds \cup {NoDevice}}

\* PUT /api/devices/{device_id}, the whole handler
UpdateDevice(p, oks) ==
    /\ Accepts(p)
    /\ \E r \in DeviceUpdates :
         /\ Arrive(p, r)
         /\ IF RoleOf(r.user) \notin {ADMIN, ENGINEER}
              THEN Refuse(p, 403, "forbidden")
              ELSE IF ~DeviceExists(devices, r.device_id)
                THEN Refuse(p, 404, "device_not_found")
              ELSE IF ~r.ip_valid
                THEN Refuse(p, 400, "invalid_ip")
              ELSE /\ status' = With(status, r.device_id,
                                     Or(r.status, status[r.device_id]))
                   /\ \E ok \in oks :
                        audit_calls' = LogAction(audit_calls, r.user, "DEVICE",
                                                 r.device_id, "UPDATE",
                                                 "", r.device_id, ok)
                   /\ Respond(p, Ok("device", "", r.device_id))
                   /\ UNCHANGED <<licenses, valid_from, valid_to, devices,
                                  assignments>>
    /\ UNCHANGED <<issued, report>>

\* DELETE /api/devices/{device_id}: the id of the path and the sender
DeviceDeletes ==
    {[op |-> "delete_device", user |-> u, device_id |-> d] :
       u \in {AdminId, "u-eng"}, d \in DeviceIds \cup {NoDevice}}

\* DELETE /api/devices/{device_id}, the whole handler
DeleteDevice(p, oks) ==
    /\ Accepts(p)
    /\ \E r \in DeviceDeletes :
         /\ Arrive(p, r)
         /\ IF RoleOf(r.user) # ADMIN
              THEN Refuse(p, 403, "forbidden")
              ELSE IF ~DeviceExists(devices, r.device_id)
                THEN Refuse(p, 404, "device_not_found")
              ELSE /\ devices' = devices \ {r.device_id}
                   /\ status' = Without(status, r.device_id)
                   /\ assignments' = Cascade(assignments, "", r.device_id)
                   /\ \E ok \in oks :
                        audit_calls' = LogAction(audit_calls, r.user, "DEVICE",
                                                 r.device_id, "DELETE",
                                                 "", r.device_id, ok)
                   /\ Respond(p, Ok("deleted", "", r.device_id))
                   /\ UNCHANGED <<licenses, valid_from, valid_to>>
    /\ UNCHANGED <<issued, report>>

\* GET /api/devices/{device_id}: the id of the path (every role may)
DeviceGets ==
    {[op |-> "get_device", user |-> "u-aud", device_id |-> d] :
       d \in DeviceIds \cup {NoDevice}}

\* GET /api/devices/{device_id}, the whole handler
GetDevice(p) ==
    /\ Accepts(p)
    /\ \E r \in DeviceGets :
         /\ Arrive(p, r)
         /\ IF ~DeviceExists(devices, r.device_id)
              THEN Refuse(p, 404, "device_not_found")
              ELSE /\ Respond(p, Ok("device", "", r.device_id))
                   /\ UNCHANGED <<licenses, valid_from, valid_to, devices, status,
                                  assignments, audit_calls>>
    /\ UNCHANGED <<issued, report>>

\* a store of one license, of capacity MaxUsage and assigned to the first of
\* its two devices; LIC-2 and DEV-C can be created
InitOps ==
    /\ licenses = [k \in {"LIC-1"} |-> MaxUsage]
    /\ valid_from = [k \in {"LIC-1"} |-> Today - 365]
    /\ valid_to = [k \in {"LIC-1"} |-> Today + 365]
    /\ devices = {"DEV-A", "DEV-B"}
    /\ status = [d \in devices |-> "ACTIVE"]
    /\ assignments = AssignedToFirst("LIC-1", 1, 0)
    /\ issued = 1
    /\ report = NoReport
    /\ Quiet

\* the requests of the license, device and assignment endpoints, one at a
\* time; the audit recorder may fail.  The Assign requests are those that
\* name their sender as assigned_by and a license and a device there can be
NextOps ==
    \E p \in Procs :
        \/ Alone(p) /\ nreq < MaxMutations /\ CreateLicense(p, BOOLEAN)
        \/ Alone(p) /\ nreq < MaxMutations /\ UpdateLicense(p, BOOLEAN)
        \/ Alone(p) /\ nreq < MaxMutations /\ DeleteLicense(p, BOOLEAN)
        \/ Alone(p) /\ nreq < MaxMutations /\ CreateDevice(p, BOOLEAN)
        \/ Alone(p) /\ nreq < MaxMutations /\ UpdateDevice(p, BOOLEAN)
        \/ Alone(p) /\ nreq < MaxMutations /\ DeleteDevice(p, BOOLEAN)
        \/ Alone(p) /\ nreq < MaxMutations /\ GetDevice(p)
        \/ /\ Alone(p) /\ nreq < MaxMutations /\ AssignBegin(p)
           /\ req'[p].assigned_by = req'[p].user
           /\ req'[p].license_key # NoLicense /\ req'[p].device_id # NoDevice
        \/ Alone(p) /\ AssignDevice(p)
        \/ Alone(p) /\ AssignExisting(p)
        \/ Alone(p) /\ AssignCount(p)
        \/ Alone(p) /\ AssignInsert(p)
        \/ Alone(p) /\ AssignAudit(p, BOOLEAN)
        \/ Alone(p) /\ nreq < MaxMutations /\ ReleaseBegin(p)
        \/ Alone(p) /\ ReleaseGet(p)
        \/ Alone(p) /\ ReleaseDelete(p)
        \/ Alone(p) /\ ReleaseAudit(p, BOOLEAN)

SpecOps == InitOps /\ [][NextOps]_vars

\* ------------------------------------- the dashboard among other requests
\* what the queries of one session see of the writes other sessions commit
\* meanwhile: every statement the store as it is then, or all of them the
\* store as it was at the session's first read
Isolations == {"statement", "snapshot"}

\* the tables as they are now
Store ==
    [licenses |-> licenses, valid_from |-> valid_from, valid_to |-> valid_to,
     devices |-> devices, status |-> status, assignments |-> assignments]

\* the tables as they were when handler p took up its request, which is when
\* its session first read (the user lookup of get_current_user)
Snapshot(p) ==
    [licenses |-> pre[p].licenses, valid_from |-> pre[p].valid_from,
     valid_to |-> pre[p].valid_to, devices |-> pre[p].devices,
     status |-> pre[p].status, assignments |-> pre[p].assignments]

\* the tables as the next query of handler p sees them
View(p) ==
    IF req[p].isolation = "snapshot" THEN Snapshot(p) ELSE Store

\* the queries of get_dashboard_summary in the order it makes them (each of
\* the three alert lists taken as one query)
DashboardQueries ==
    <<"expiring_licenses", "overused_licenses", "devices_at_risk",
      "total_devices", "active_devices", "maintenance_devices",
      "decommissioned_devices", "total_licenses", "expired_licenses">>

\* the status filter dropped: every device counted
CountDevicesUnfiltered(S, device_status) ==
    Cardinality(S.devices)

\* query(Device).filter(Device.status == device_status).count() on the tables S
CountDevices(S, device_status) ==
    Cardinality({d \in S.devices : S.status[d] = device_status})

\* what query q of get_dashboard_summary returns on the tables S
DashboardQuery(q, S, lorder, dorder) ==
    CASE q = "expiring_licenses" ->
           GetExpiringLicenses(S.valid_to, S.assignments, 30, lorder)
      [] q = "overused_licenses" ->
           GetOverusedLicenses(S.licenses, S.assignments, 75, lorder)
      [] q = "devices_at_risk" ->
           GetDevicesAtRisk(S.valid_to, S.assignments, S.status, 15, dorder)
      [] q = "total_devices" -> Cardinality(S.devices)
      [] q = "active_devices" -> CountDevices(S, "ACTIVE")
      [] q = "maintenance_devices" -> CountDevices(S, "MAINTENANCE")
      [] q = "decommissioned_devices" -> CountDevices(S, "DECOMMISSIONED")
      [] q = "total_licenses" -> Cardinality(DOMAIN S.licenses)
      [] q = "expired_licenses" ->
           Cardinality({k \in DOMAIN S.licenses : S.valid_to[k] < Today})

\* the locals of get_dashboard_summary before its first query; at: the query
\* to make next, undisturbed: every query so far found the tables as they
\* were when the request began
NoSummary ==
    [at |-> 1, undisturbed |-> TRUE,
     expiring_licenses |-> <<>>, overused_licenses |-> <<>>,
     devices_at_risk |-> <<>>, total_devices |-> 0, active_devices |-> 0,
     maintenance_devices |-> 0, decommissioned_devices |-> 0,
     total_licenses |-> 0, expired_licenses |-> 0]

\* the dict get_dashboard_summary returns (without timestamp), of which the
\* endpoint's response model keeps seven fields
Summary(l) ==
    [total_devices |-> l.total_devices,
     active_devices |-> l.active_devices,
     maintenance_devices |-> l.maintenance_devices,
     decommissioned_devices |-> l.decommissioned_devices,
     total_licenses |-> l.total_licenses,
     expired_licenses |-> l.expired_licenses,
     expiring_licenses_count |-> Len(l.expiring_licenses),
     overused_licenses_count |-> Len(l.overused_licenses),
     devices_at_risk_count |-> Len(l.devices_at_risk),
     critical_alerts |-> CountCritical(l.expiring_licenses)
                           + CountCritical(l.overused_licenses)
                           + CountCritical(l.devices_at_risk)]

\* GET /api/dashboard/summary is taken up (every role may)
DashboardBegin(p) ==
    /\ Accepts(p)
    /\ \E isolation \in Isolations :
         Arrive(p, [op |-> "dashboard", user |-> "u-aud", isolation |-> isolation])
    /\ Goto(p, "summary", NoSummary)
    /\ UNCHANGED <<licenses, valid_from, valid_to, devices, status, assignments,
                   audit_calls, issued, report>>

\* the next query of get_dashboard_summary; after the last one it returns
DashboardStep(p) ==
    /\ pc[p] = "summary"
    /\ \E lorder \in AllOrders(DOMAIN View(p).licenses),
          dorder \in AllOrders(View(p).devices) :
         LET q == DashboardQueries[loc[p].at]
             l == [loc[p] EXCEPT ![q] = DashboardQuery(q, View(p), lorder, dorder),
                                 !.at = @ + 1,
                                 !.undisturbed = @ /\ Store = Snapshot(p)]
         IN  IF loc[p].at < Len(DashboardQueries)
               THEN Goto(p, "summary", l)
               ELSE Respond(p, [status_code |-> 200, detail |-> "dashboard",
                                undisturbed |-> l.undisturbed, body |-> Summary(l)])
    /\ UNCHANGED <<licenses, valid_from, valid_to, devices, status, assignments,
                   audit_calls, req, pre, nreq, issued, report>>

\* a store of one license, five days from expiry and assigned to the first of
\* its two devices, the second of which is in maintenance; LIC-2 and DEV-C can
\* be created
InitRace ==
    /\ licenses = [k \in {"LIC-1"} |-> MaxUsage]
    /\ valid_from = [k \in {"LIC-1"} |-> Today - 365]
    /\ valid_to = [k \in {"LIC-1"} |-> Today + 5]
    /\ devices = {"DEV-A", "DEV-B"}
    /\ status = [d \in devices |-> IF d = "DEV-B" THEN "MAINTENANCE" ELSE "ACTIVE"]
    /\ assignments = AssignedToFirst("LIC-1", 1, 0)
    /\ issued = 1
    /\ report = NoReport
    /\ Quiet

\* dashboard requests, their queries one by one, and between them the
\* license and device requests that are answered 200; the audit recorder
\* works
NextRace ==
    \E p \in Procs :
        \/ nreq < MaxMutations /\ DashboardBegin(p)
        \/ DashboardStep(p)
        \/ nreq < MaxMutations /\ CreateLicense(p, {TRUE}) /\ result'[p].status_code = 200
        \/ nreq < MaxMutations /\ UpdateLicense(p, {TRUE}) /\ result'[p].status_code = 200
        \/ nreq < MaxMutations /\ DeleteLicense(p, {TRUE}) /\ result'[p].status_code = 200
        \/ nreq < MaxMutations /\ CreateDevice(p, {TRUE}) /\ result'[p].status_code = 200
        \/ nreq < MaxMutations /\ UpdateDevice(p, {TRUE}) /\ result'[p].status_code = 200
        \/ nreq < MaxMutations /\ DeleteDevice(p, {TRUE}) /\ result'[p].status_code = 200

SpecRace == InitRace /\ [][NextRace]_vars

\* ------------------------------------------- POST /api/devices/bulk-upload
\* the rows a CSV file is made of: for each of three device ids (DEV-B is in
\* the store, DEV-C and DEV-D are not) a well-formed row, and for DEV-C also a
\* row in maintenance, a row with a required field empty, a row with a
\* malformed ip_address and a row with a status DeviceStatus does not have
CsvRows ==
    LET Row(d, st, complete, ip) ==
            [device_id |-> d, status |-> st, complete |-> complete, ip_valid |-> ip]
    IN  {Row(d, "ACTIVE", TRUE, TRUE) : d \in {"DEV-B", "DEV-C", "DEV-D"}}
        \cup {Row("DEV-C", "MAINTENANCE", TRUE, TRUE),
              Row("DEV-C", "ACTIVE", FALSE, TRUE),
              Row("DEV-C", "ACTIVE", TRUE, FALSE),
              Row("DEV-C", "BROKEN", TRUE, TRUE)}

\* the uploads: an engineer's CSV file of up to MaxRows rows, an engineer's
\* file that is not a CSV, and an auditor's file
BulkUploads ==
    LET Upload(u, csv, rows) ==
            [op |-> "bulk_upload", user |-> u, csv |-> csv, rows |-> rows]
    IN  {Upload("u-eng", TRUE, rows) :
           rows \in UNION {[1..n -> CsvRows] : n \in 0..MaxRows}}
        \cup {Upload("u-eng", FALSE, <<>>), Upload("u-aud", TRUE, <<>>)}

\* errors.append({"row": row_num, "error": ...}); error_count += 1
RowError(s, row_num, error) ==
    [s EXCEPT !.errors = Append(@, [row |-> row_num, error |-> error]),
              !.error_count = @ + 1]

\* one turn of the loop over the rows, s the session and the counters before
\* it.  db.add(device) leaves the device pending; the db.commit() of
\* log_action writes the device and the audit row together (ok), or raises,
\* and then the db.rollback() of log_action drops the pending device with the
\* audit row; success_count += 1 either way
BulkRow(s, user, row_num, row, ok) ==
    IF ~row.complete THEN RowError(s, row_num, "missing_fields")
    ELSE IF ~row.ip_valid THEN RowError(s, row_num, "invalid_ip")
    ELSE IF DeviceExists(s.devices, row.device_id)
      THEN RowError(s, row_num, "already_exists")
    ELSE IF row.status \notin {"ACTIVE", "MAINTENANCE", "DECOMMISSIONED"}
      THEN RowError(s, row_num, "KeyError")
    ELSE [s EXCEPT !.devices = IF ok THEN @ \cup {row.device_id} ELSE @,
                   !.status = IF ok THEN With(@, row.device_id, row.status) ELSE @,
                   !.audit_calls = LogAction(@, user, "DEVICE", row.device_id,
                                             "CREATE", "", row.device_id, ok),
                   !.success_count = @ + 1]

\* for row_num, row in enumerate(csv_reader, start=2), from row i on
RECURSIVE BulkLoop(_, _, _, _, _)
BulkLoop(s, user, rows, oks, i) ==
    IF i > Len(rows) THEN s
    ELSE BulkLoop(BulkRow(s, user, i + 1, rows[i], oks[i]), user, rows, oks, i + 1)

\* POST /api/devices/bulk-upload, the whole handler
BulkUploadDevices(p, oks) ==
    /\ Accepts(p)
    /\ \E r \in BulkUploads :
         /\ Arrive(p, r)
         /\ IF RoleOf(r.user) \notin {ADMIN, ENGINEER}
              THEN Refuse(p, 403, "forbidden")
              ELSE IF ~r.csv
                THEN Refuse(p, 400, "not_csv")
              ELSE \E ok \in [1..Len(r.rows) -> oks] :
                     LET s == BulkLoop([devices |-> devices, status |-> status,
                                        audit_calls |-> audit_calls,
                                        success_count |-> 0, error_count |-> 0,
                                        errors |-> <<>>],
                                       r.user, r.rows, ok, 1)
                     IN  /\ devices' = s.devices
                         /\ status' = s.status
                         /\ audit_calls' = s.audit_calls
                         /\ Respond(p, [status_code |-> 200, detail |-> "bulk",
                                        total_processed |-> s.success_count + s.error_count,
                                        successful |-> s.success_count,
                                        failed |-> s.error_count,
                                        errors |-> s.errors])
                         /\ UNCHANGED <<licenses, valid_from, valid_to, assignments>>
    /\ UNCHANGED <<issued, report>>

\* one bulk upload, then device reads; the commit of log_action may fail
NextBulk ==
    \E p \in Procs :
        \/ nreq = 0 /\ BulkUploadDevices(p, BOOLEAN)
        \/ nreq > 0 /\ nreq < MaxMutations /\ GetDevice(p)

SpecBulk == InitOps /\ [][NextBulk]_vars

\* ------------------------------------------------------ reading the audit log
\* query(AuditLog) ... order_by(AuditLog.timestamp.desc()).all() with the
\* optional filter on entity_type ("": no filter): the rows that were
\* stored, the latest first.  Every row of a behaviour is younger than the
\* shortest period the report can be asked for (days >= 1)
AuditLogs(calls, entity_type) ==
    LET Kept(c) == c.stored /\ (entity_type # "" => c.entity_type = entity_type)
        rows == SelectSeq(calls, Kept)
    IN  [i \in 1..Len(rows) |-> rows[Len(rows) + 1 - i]]

\* .offset(skip).limit(limit)
OffsetLimit(rows, skip, limit) ==
    SubSeq(rows, skip + 1, IF skip + limit < Len(rows) THEN skip + limit ELSE Len(rows))

\* the requests that read the audit log: by each of the three roles, with
\* and without a filter on entity_type
AuditReads(op) ==
    {[op |-> op, user |-> u, entity_type |-> e, skip |-> k] :
       u \in {AdminId, "u-eng", "u-aud"}, e \in {"", "DEVICE"}, k \in {0, 1}}

\* GET /api/audit-logs, the whole handler (limit at its default)
GetAuditLogs(p) ==
    /\ Accepts(p)
    /\ \E r \in AuditReads("get_audit_logs") :
         /\ Arrive(p, r)
         /\ IF RoleOf(r.user) \notin {ADMIN, AUDITOR}
              THEN Respond(p, HTTPException(403, "forbidden"))
              ELSE Respond(p, [status_code |-> 200, detail |-> "audit_logs",
                               logs |-> OffsetLimit(AuditLogs(audit_calls, r.entity_type),
                                                    r.skip, 100)])
    /\ UNCHANGED <<licenses, valid_from, valid_to, devices, status, assignments,
                   audit_calls, issued, report>>

\* GET /api/reports/audit-logs, the whole handler: generate_audit_log_report
\* (log_data without log_id and timestamp; the user's name and email stand
\* for the user)
GetAuditLogReport(p) ==
    /\ Accepts(p)
    /\ \E r \in {x \in AuditReads("get_audit_log_report") : x.skip = 0} :
         /\ Arrive(p, r)
         /\ LET log_data == AuditLogs(audit_calls, r.entity_type)
            IN  Respond(p, [status_code |-> 200, detail |-> "audit_report",
                            entity_type_filter |-> r.entity_type,
                            total_activities |-> Len(log_data),
                            logs |-> log_data])
    /\ UNCHANGED <<licenses, valid_from, valid_to, devices, status, assignments,
                   audit_calls, issued, report>>

\* device requests that write audit rows, and the two ways to read the audit
\* log, one request at a time; log_action may fail
NextAudit ==
    \E p \in Procs :
        \/ Alone(p) /\ nreq < MaxMutations /\ CreateDevice(p, BOOLEAN)
        \/ Alone(p) /\ nreq < MaxMutations /\ UpdateDevice(p, BOOLEAN)
        \/ Alone(p) /\ nreq < MaxMutations /\ DeleteDevice(p, BOOLEAN)
        \/ Alone(p) /\ nreq < MaxMutations /\ GetAuditLogs(p)
        \/ Alone(p) /\ nreq < MaxMutations /\ GetAuditLogReport(p)

SpecAudit == InitOps /\ [][NextAudit]_vars

\* ------------------------------------------------------------------- claims
\* handler p holds the response to a request of kind op
Done(p, op) == pc[p] = "done" /\ req[p].op = op

\* the rows of table S that bind license l to device d
Bound(S, l, d) == {a \in S : a.license_key = l /\ a.device_id = d}

\* the rows of table S that reference license l
Live(S, l) == {a \in S : a.license_key = l}

\* C1: with Assign requests for distinct devices interleaved step by step, the
\* devices holding a live assignment of a license never outnumber its max_usage
C1_CapacityUnderConcurrency ==
    \A l \in DOMAIN licenses :
        Cardinality({a.device_id : a \in Live(assignments, l)}) <= licenses[l]

\* C2: with one request at a time, the live assignments of every license
\* number at most its max_usage
C2_CapacityInvariant ==
    \A l \in DOMAIN licenses : Cardinality(Live(assignments, l)) <= licenses[l]

\* a license of capacity 2 is full and an Assign for a third device was refused
C2_Witness ==
    \E p \in Procs :
        /\ Done(p, "assign")
        /\ result[p].detail = "maximum_usage"
        /\ licenses[req[p].license_key] = 2
        /\ Cardinality(Live(assignments, req[p].license_key)) = 2

\* C3: with one request at a time, a (license_key, device_id) pair has at most
\* one live assignment, and an Assign for a pair already live is answered
\* 400 "already assigned" and leaves the assignments as they were
C3_UniquePair ==
    /\ \A a, b \in assignments :
         a.license_key = b.license_key /\ a.device_id = b.device_id => a = b
    /\ \A p \in Procs :
         ( /\ Done(p, "assign")
           /\ MayAssign(req[p].user)
           /\ Bound(pre[p].assignments, req[p].license_key, req[p].device_id) # {} )
         => /\ result[p] = HTTPException(400, "already_assigned")
            /\ assignments = pre[p].assignments

\* an Assign for a live pair was refused although the license had room
C3_Witness ==
    \E p \in Procs :
        /\ Done(p, "assign")
        /\ result[p].detail = "already_assigned"
        /\ Cardinality(Live(assignments, req[p].license_key))
             < licenses[req[p].license_key]

\* C4: with Assign requests for the same pair interleaved step by step, the
\* pair still has at most one live assignment
C4_UniquePairUnderConcurrency ==
    \A l \in LicenseKeys, d \in DeviceIds :
        Cardinality(Bound(assignments, l, d)) <= 1

\* the tables are as they were when handler p took up its request, and no
\* audit call was made since
Untouched(p) ==
    /\ licenses = pre[p].licenses
    /\ devices = pre[p].devices
    /\ assignments = pre[p].assignments
    /\ Len(audit_calls) = pre[p].audit

\* C5: with one request at a time, Assign reports the first failing check in
\* the order license, device, duplicate, capacity (a missing license wins over
\* a missing device, a missing device and a duplicate win over a full license),
\* and a refused Assign leaves the store as it was
C5_FirstFailureWins ==
    \A p \in Procs :
        Done(p, "assign") /\ MayAssign(req[p].user) =>
            LET l == req[p].license_key
                d == req[p].device_id
                S == pre[p].assignments
            IN  /\ l \notin DOMAIN pre[p].licenses
                     => result[p] = HTTPException(404, "license_not_found")
                /\ l \in DOMAIN pre[p].licenses /\ d \notin pre[p].devices
                     => result[p] = HTTPException(404, "device_not_found")
                /\ l \in DOMAIN pre[p].licenses /\ d \in pre[p].devices
                                                /\ Bound(S, l, d) # {}
                     => result[p] = HTTPException(400, "already_assigned")
                /\ result[p].status_code # 200 => Untouched(p)

\* an Assign for a live pair of a full license was answered "already assigned"
C5_Witness ==
    \E p \in Procs :
        /\ Done(p, "assign")
        /\ result[p] = HTTPException(400, "already_assigned")
        /\ Cardinality(Live(assignments, req[p].license_key))
             >= licenses[req[p].license_key]

\* C6: with one request at a time, an Assign of a new pair to a license whose
\* live assignments number max_usage or more is answered 400 "maximum usage"
\* with that count and that max_usage, and creates nothing
C6_CapacityExceeded ==
    \A p \in Procs :
        LET l == req[p].license_key
            d == req[p].device_id
            S == pre[p].assignments
        IN  ( /\ Done(p, "assign")
              /\ MayAssign(req[p].user)
              /\ l \in DOMAIN pre[p].licenses
              /\ d \in pre[p].devices
              /\ Bound(S, l, d) = {}
              /\ Cardinality(Live(S, l)) >= pre[p].licenses[l] )
            => /\ result[p].status_code = 400
               /\ result[p].detail = "maximum_usage"
               /\ result[p].current_usage = Cardinality(Live(S, l))
               /\ result[p].max_usage = pre[p].licenses[l]
               /\ result[p].assignment = {}
               /\ assignments = S

\* max_usage = 2: the third Assign was refused with count 2 and limit 2, while
\* the other license has an assignment of its own
C6_Witness ==
    \E p \in Procs :
        /\ Done(p, "assign")
        /\ result[p].detail = "maximum_usage"
        /\ result[p].current_usage = 2
        /\ result[p].max_usage = 2

\* C7: a successful Assign adds exactly one assignment, with the requested
\* license_key and device_id, an id no stored assignment had, and assigned_by
\* the user who made the request (the user_id given to the audit recorder)
C7_AssignedByIsActor ==
    \A p \in Procs :
        Done(p, "assign") /\ result[p].status_code = 200 =>
            \E a \in result[p].assignment :
                /\ assignments = pre[p].assignments \cup {a}
                /\ \A b \in pre[p].assignments : b.assignment_id # a.assignment_id
                /\ a.license_key = req[p].license_key
                /\ a.device_id = req[p].device_id
                /\ Len(audit_calls) = pre[p].audit + 1
                /\ audit_calls[Len(audit_calls)].user_id = req[p].user
                /\ a.assigned_by = audit_calls[Len(audit_calls)].user_id

\* C8: with one request at a time, Release of an id no stored assignment has
\* is answered 404 "assignment not found", changes no table and makes no
\* audit call
C8_ReleaseUnknown ==
    \A p \in Procs :
        ( /\ Done(p, "release")
          /\ MayUnassign(req[p].user)
          /\ \A a \in pre[p].assignments : a.assignment_id # req[p].assignment_id )
        => /\ result[p] = HTTPException(404, "assignment_not_found")
           /\ Untouched(p)

\* a Release of an unknown id was refused while the store holds assignments
C8_Witness ==
    \E p \in Procs :
        /\ Done(p, "release")
        /\ result[p] = HTTPException(404, "assignment_not_found")
        /\ assignments # {}

\* C9: with one request at a time, Release of a stored assignment removes that
\* row and no other, changes no license and no device, and returns the
\* license_key and device_id of the removed row
C9_ReleaseExisting ==
    \A p \in Procs :
        \A a \in pre[p].assignments :
            ( /\ Done(p, "release")
              /\ MayUnassign(req[p].user)
              /\ a.assignment_id = req[p].assignment_id )
            => /\ result[p].status_code = 200
               /\ result[p].license_key = a.license_key
               /\ result[p].device_id = a.device_id
               /\ assignments = pre[p].assignments \ {a}
               /\ licenses = pre[p].licenses
               /\ devices = pre[p].devices

\* one of two stored assignments was released and the other is still there
C9_Witness ==
    \E p \in Procs :
        /\ Done(p, "release")
        /\ result[p].status_code = 200
        /\ assignments # {}
        /\ Cardinality(pre[p].assignments) = Cardinality(assignments) + 1

\* the UNASSIGN audit calls made for assignment id
Unassigns(id) ==
    {i \in 1..Len(audit_calls) :
        audit_calls[i].action = "UNASSIGN" /\ audit_calls[i].entity_id = id}

\* C10: when two Release requests for the same stored assignment interleave
\* step by step, one is answered 200, the other 404 "assignment not found",
\* and one UNASSIGN audit call is made for the assignment
C10_ReleaseOnce ==
    \A p, q \in Procs :
        ( /\ p # q
          /\ Done(p, "release") /\ Done(q, "release")
          /\ MayUnassign(req[p].user) /\ MayUnassign(req[q].user)
          /\ req[p].assignment_id = req[q].assignment_id
          /\ FindAssignment(pre[p].assignments, req[p].assignment_id) # {}
          /\ FindAssignment(pre[q].assignments, req[q].assignment_id) # {} )
        => /\ {result[p].status_code, result[q].status_code} = {200, 404}
           /\ Cardinality(Unassigns(req[p].assignment_id)) = 1

\* the current_usage Utilization reports for license l on the store (L, A)
Usage(L, A, l) == GetLicenseUtilization(L, A, l).current_usage

\* the audit calls made with action act for license l: the endpoints make one
\* after every request that succeeded, and none otherwise
Logged(act, l) ==
    {i \in 1..Len(audit_calls) :
        audit_calls[i].action = act /\ audit_calls[i].license_key = l}

\* C11: with one request at a time, a successful Assign on a license raises
\* the current_usage Utilization reports for it by exactly 1, a successful
\* Release of one of its assignments lowers it by exactly 1, a failed Assign
\* or Release changes no license's current_usage, and between requests the
\* current_usage of a license is its successful Assigns minus its successful
\* Releases
C11_UtilizationCounts ==
    /\ \A p \in Procs, l \in LicenseKeys :
         LET before == Usage(pre[p].licenses, pre[p].assignments, l)
             after == Usage(licenses, assignments, l)
         IN  /\ (Done(p, "assign") /\ result[p].status_code = 200)
                  => after = before + (IF req[p].license_key = l THEN 1 ELSE 0)
             /\ (Done(p, "release") /\ result[p].status_code = 200)
                  => after = before - (IF result[p].license_key = l THEN 1 ELSE 0)
             /\ (pc[p] = "done" /\ result[p].status_code # 200) => after = before
    /\ (\A p \in Procs : Free(p)) =>
         \A l \in LicenseKeys :
             Usage(licenses, assignments, l)
               = Cardinality(Logged("ASSIGN", l)) - Cardinality(Logged("UNASSIGN", l))

\* two Assigns and one Release on a license succeeded: Utilization reports 1
C11_Witness ==
    \E l \in LicenseKeys :
        /\ \A p \in Procs : Free(p)
        /\ Cardinality(Logged("ASSIGN", l)) = 2
        /\ Cardinality(Logged("UNASSIGN", l)) = 1
        /\ Usage(licenses, assignments, l) = 1
        /\ \E p \in Procs : Done(p, "release") /\ result[p].status_code = 200

\* the exact percentage cur / max * 100 is within half a hundredth of x
NearestHundredth(x, cur, max) ==
    /\ x.den = 100
    /\ 2 * x.num * max - 2 * cur * 10000 <= max
    /\ 2 * cur * 10000 - 2 * x.num * max <= max

\* Utilization answered for a license of the store; what it says besides the
\* percentage is right: current_usage, available, and the status of the
\* reported percentage
UtilizationBody(b, l) ==
    /\ b.status_code = 200
    /\ b.current_usage = Cardinality(Live(assignments, l))
    /\ b.max_usage = licenses[l]
    /\ b.available = licenses[l] - b.current_usage
    /\ b.status = "CRITICAL" <=> b.utilization_percent.num >= 90 * b.utilization_percent.den
    /\ b.status = "WARNING" <=> /\ b.utilization_percent.num >= 70 * b.utilization_percent.den
                                /\ b.utilization_percent.num < 90 * b.utilization_percent.den
    /\ b.status = "OK" <=> b.utilization_percent.num < 70 * b.utilization_percent.den

\* C12 as stated: Utilization of an absent license is 404; otherwise
\* current_usage is the live count, available is max_usage - current_usage,
\* the percentage is exactly current_usage / max_usage * 100 (0 when
\* max_usage is 0) and the status is CRITICAL from 90, WARNING from 70, else OK
C12_ExactPercentage ==
    report.op = "utilization" =>
        LET l == report.license_key
            b == report.body
        IN  IF l \notin DOMAIN licenses
              THEN b = HTTPException(404, "license_not_found")
              ELSE /\ UtilizationBody(b, l)
                   /\ b.utilization_percent.num * licenses[l]
                        = b.current_usage * 100 * b.utilization_percent.den
                   /\ licenses[l] = 0 => b.utilization_percent.num = 0

\* C12: Utilization of an absent license is 404; otherwise current_usage is
\* the live count, available is max_usage - current_usage, the percentage is
\* current_usage / max_usage * 100 rounded to two decimals (0 when max_usage
\* is 0), and the status is CRITICAL when the reported percentage is 90 or
\* more, WARNING when it is 70 or more and below 90, else OK
C12_Utilization ==
    report.op = "utilization" =>
        LET l == report.license_key
            b == report.body
        IN  IF l \notin DOMAIN licenses
              THEN b = HTTPException(404, "license_not_found")
              ELSE /\ UtilizationBody(b, l)
                   /\ licenses[l] > 0
                        => NearestHundredth(b.utilization_percent, b.current_usage,
                                            licenses[l])
                   /\ licenses[l] = 0 => b.utilization_percent.num = 0

\* 2 of 3 is reported as 66.67 percent, available 1, OK
C12_Witness ==
    /\ report.op = "utilization"
    /\ report.license_key \in DOMAIN licenses
    /\ report.body.current_usage = 2
    /\ report.body.max_usage = 3
    /\ report.body.available = 1
    /\ report.body.utilization_percent = Float(6667, 100)
    /\ report.body.status = "OK"

\* C13: for d >= 0, ExpirySeverity(d) is CRITICAL for d <= 7, HIGH for
\* 8 <= d <= 15, MEDIUM for 16 <= d <= 30 and LOW for d >= 31
C13_ExpirySeverity ==
    report.op = "expiry_severity" =>
        LET d == report.days_until_expiry
        IN  /\ d <= 7 => report.severity = "CRITICAL"
            /\ (8 <= d /\ d <= 15) => report.severity = "HIGH"
            /\ (16 <= d /\ d <= 30) => report.severity = "MEDIUM"
            /\ d >= 31 => report.severity = "LOW"

\* 31 days are LOW
C13_Witness ==
    /\ report.op = "expiry_severity"
    /\ report.days_until_expiry = 31
    /\ report.severity = "LOW"

\* C14: UsageSeverity(p) is CRITICAL for p >= 95, HIGH for 90 <= p < 95,
\* WARNING for 75 <= p < 90, else NORMAL; and the utilization status keeps
\* its own scale: for 70 <= p < 75 the status is WARNING and the severity
\* NORMAL, for 90 <= p < 95 the status is CRITICAL and the severity HIGH
C14_UsageSeverity ==
    report.op = "usage_severity" =>
        LET n == report.percentage.num     \* hundredths of a percent
        IN  /\ report.percentage.den = 100
            /\ n >= 9500 => report.severity = "CRITICAL"
            /\ (9000 <= n /\ n < 9500) => report.severity = "HIGH"
            /\ (7500 <= n /\ n < 9000) => report.severity = "WARNING"
            /\ n < 7500 => report.severity = "NORMAL"
            /\ (7000 <= n /\ n < 7500)
                 => report.status = "WARNING" /\ report.severity = "NORMAL"
            /\ (9000 <= n /\ n < 9500)
                 => report.status = "CRITICAL" /\ report.severity = "HIGH"

\* 72 percent: status WARNING, severity NORMAL
C14_Witness ==
    /\ report.op = "usage_severity"
    /\ report.percentage = Float(7200, 100)
    /\ report.status = "WARNING"
    /\ report.severity = "NORMAL"

\* C15: the expiring-licenses list for a lookahead of N days holds exactly
\* the licenses with today <= valid_to <= today + N, once each, each with
\* days_until_expiry = valid_to - today and the ExpirySeverity of that number,
\* in ascending order of days_until_expiry
C15_ExpiringList ==
    report.op = "expiring" =>
        LET b == report.body
        IN  /\ {b[i].license_key : i \in 1..Len(b)}
                 = {k \in DOMAIN licenses :
                      Today <= valid_to[k] /\ valid_to[k] <= Today + report.days}
            /\ \A i, j \in 1..Len(b) : b[i].license_key = b[j].license_key => i = j
            /\ \A i \in 1..Len(b) :
                 /\ b[i].days_until_expiry = valid_to[b[i].license_key] - Today
                 /\ b[i].severity = ExpirySeverity(b[i].days_until_expiry)
            /\ \A i, j \in 1..Len(b) :
                 i < j => b[i].days_until_expiry <= b[j].days_until_expiry

\* licenses 20, 5 and 29 days from expiry: the list for 30 days is 5, 20, 29
C15_Witness ==
    /\ report.op = "expiring"
    /\ report.days = 30
    /\ Len(report.body) = 3
    /\ report.body[1].days_until_expiry = 5
    /\ report.body[2].days_until_expiry = 20
    /\ report.body[3].days_until_expiry = 29

\* the licenses whose days_until_expiry lies in lo..hi
ExpiringIn(lo, hi) ==
    {k \in DOMAIN licenses : lo <= valid_to[k] - Today /\ valid_to[k] - Today <= hi}

\* the licenses already expired, and those valid for more than 60 days
ExpiredKeys == {k \in DOMAIN licenses : valid_to[k] - Today < 0}
Beyond60Keys == {k \in DOMAIN licenses : valid_to[k] - Today > 60}

\* the license keys of a list of license_data
KeysOf(list) == {list[i].license_key : i \in 1..Len(list)}

\* C20: both compliance reports put every license into exactly one of the
\* buckets expired (days_until_expiry < 0), expiring within 30 days (0..30),
\* expiring within 60 days (31..60) and valid (> 60), and the four bucket
\* sizes add up to total_licenses
C20_BucketTotality ==
    LET b == report.body
    IN  /\ report.op = "alert_compliance" =>
              /\ b.expired_licenses = Cardinality(ExpiredKeys)
              /\ b.expiring_within_30_days = Cardinality(ExpiringIn(0, 30))
              /\ b.expiring_within_60_days = Cardinality(ExpiringIn(31, 60))
              /\ b.valid_licenses = Cardinality(Beyond60Keys)
              /\ b.total_licenses = Cardinality(DOMAIN licenses)
              /\ b.expired_licenses + b.expiring_within_30_days
                   + b.expiring_within_60_days + b.valid_licenses = b.total_licenses
        /\ report.op = "report_compliance" =>
              /\ KeysOf(b.expired_licenses) = ExpiredKeys
              /\ KeysOf(b.expiring_30_days) = ExpiringIn(0, 30)
              /\ KeysOf(b.expiring_60_days) = ExpiringIn(31, 60)
              /\ KeysOf(b.valid_licenses) = Beyond60Keys
              /\ b.summary.expired = Cardinality(KeysOf(b.expired_licenses))
              /\ b.summary.expiring_30_days = Cardinality(KeysOf(b.expiring_30_days))
              /\ b.summary.expiring_60_days = Cardinality(KeysOf(b.expiring_60_days))
              /\ b.summary.valid = Cardinality(KeysOf(b.valid_licenses))
              /\ b.total_licenses = Cardinality(DOMAIN licenses)
              /\ b.summary.expired + b.summary.expiring_30_days
                   + b.summary.expiring_60_days + b.summary.valid = b.total_licenses

\* three licenses at the bucket boundaries 30, 31 and 60 days: the report of
\* the alert service counts one within 30 days and two within 60
C20_Witness ==
    /\ report.op = "alert_compliance"
    /\ {valid_to[k] - Today : k \in DOMAIN licenses} = {30, 31, 60}
    /\ report.body.total_licenses = 3
    /\ report.body.expiring_within_30_days = 1
    /\ report.body.expiring_within_60_days = 2

\* the live assignments of license k, as a percentage of its max_usage, are
\* at least t (0 percent when max_usage is 0)
AtLeast(k, t) ==
    IF licenses[k] > 0
      THEN Cardinality(Live(assignments, k)) * 100 >= t * licenses[k]
      ELSE 0 >= t

\* C16: the overused-licenses list for a threshold T holds exactly the
\* licenses whose utilization percentage (0 when max_usage is 0) is at least
\* T, once each, each with the UsageSeverity of that percentage, in descending
\* order of the reported percentage
C16_OverusedList ==
    report.op = "overused" =>
        LET b == report.body
        IN  /\ {b[i].license_key : i \in 1..Len(b)}
                 = {k \in DOMAIN licenses : AtLeast(k, report.threshold_percent)}
            /\ \A i, j \in 1..Len(b) : b[i].license_key = b[j].license_key => i = j
            /\ \A i \in 1..Len(b) :
                 LET k == b[i].license_key
                 IN  /\ b[i].severity = "CRITICAL" <=> AtLeast(k, 95)
                     /\ b[i].severity = "HIGH" <=> AtLeast(k, 90) /\ ~AtLeast(k, 95)
                     /\ b[i].severity = "WARNING" <=> AtLeast(k, 75) /\ ~AtLeast(k, 90)
                     /\ b[i].severity = "NORMAL" <=> ~AtLeast(k, 75)
                     /\ IF licenses[k] > 0
                          THEN NearestHundredth(b[i].usage_percentage,
                                                Cardinality(Live(assignments, k)),
                                                licenses[k])
                          ELSE b[i].usage_percentage.num = 0
            /\ \A i, j \in 1..Len(b) :
                 i < j => b[i].usage_percentage.num >= b[j].usage_percentage.num

\* threshold 75: a license at 9 of 10 comes before one at exactly 3 of 4
C16_Witness ==
    /\ report.op = "overused"
    /\ report.threshold_percent = 75
    /\ Len(report.body) = 2
    /\ report.body[1].usage_percentage = Float(9000, 100)
    /\ report.body[1].severity = "HIGH"
    /\ report.body[2].usage_percentage = Float(7500, 100)
    /\ report.body[2].severity = "WARNING"

\* the live assignments of device d whose license is expired, and those whose
\* license expires within n days from today
ExpiredAt(d) == {a \in assignments : a.device_id = d /\ valid_to[a.license_key] < Today}
SoonAt(d, n) ==
    {a \in assignments : /\ a.device_id = d
                         /\ Today <= valid_to[a.license_key]
                         /\ valid_to[a.license_key] <= Today + n}

\* the entries of a devices-at-risk list carry the right two counts, and no
\* device is listed twice
RiskCounts(b, n) ==
    /\ \A i, j \in 1..Len(b) : b[i].device_id = b[j].device_id => i = j
    /\ \A i \in 1..Len(b) :
         /\ b[i].expired_licenses = Cardinality(ExpiredAt(b[i].device_id))
         /\ b[i].expiring_soon = Cardinality(SoonAt(b[i].device_id, n))

\* C17 as stated: a device is in the devices-at-risk list if and only if one
\* of its live assignments references an expired or an expiring-soon license,
\* and its two counts are the numbers of its assignments of the two classes
C17_EveryDeviceListed ==
    report.op \in {"devices_at_risk", "mcp_devices_at_risk"} =>
        LET b == report.body
            n == report.days_threshold
        IN  /\ {b[i].device_id : i \in 1..Len(b)}
                 = {d \in devices : ExpiredAt(d) \cup SoonAt(d, n) # {}}
            /\ RiskCounts(b, n)

\* C17: a device is in the devices-at-risk list (of the alert service and of
\* the MCP handler) if and only if its status is ACTIVE and one of its live
\* assignments references an expired or an expiring-soon license; its two
\* counts are the numbers of its assignments of the two classes
C17_ActiveDeviceListed ==
    report.op \in {"devices_at_risk", "mcp_devices_at_risk"} =>
        LET b == report.body
            n == report.days_threshold
        IN  /\ {b[i].device_id : i \in 1..Len(b)}
                 = {d \in devices : /\ status[d] = "ACTIVE"
                                    /\ ExpiredAt(d) \cup SoonAt(d, n) # {}}
            /\ RiskCounts(b, n)

\* threshold 15: a device whose only license expires in exactly 15 days is
\* listed, one whose only license expires in 16 days is not
C17_Witness ==
    /\ report.op = "devices_at_risk"
    /\ report.days_threshold = 15
    /\ \E i \in 1..Len(report.body) :
         /\ report.body[i].expired_licenses = 0
         /\ report.body[i].expiring_soon = 1
         /\ \E a \in assignments : /\ a.device_id = report.body[i].device_id
                                   /\ valid_to[a.license_key] = Today + 15
    /\ \E d \in devices :
         /\ status[d] = "ACTIVE"
         /\ \E a \in assignments : a.device_id = d
         /\ \A a \in assignments : a.device_id = d => valid_to[a.license_key] = Today + 16
         /\ \A i \in 1..Len(report.body) : report.body[i].device_id # d

\* C18: a device-risk report is CRITICAL if the device has an expired license
\* and WARNING otherwise, its message gives the expired count when there is
\* one and the expiring-soon count when there is one, and the list has every
\* CRITICAL report before every WARNING report and, within one severity, the
\* reports in descending order of their expired count
C18_DeviceRiskOrder ==
    report.op = "devices_at_risk" =>
        LET b == report.body
        IN  /\ \A i \in 1..Len(b) :
                 /\ b[i].severity = (IF b[i].expired_licenses >= 1 THEN "CRITICAL"
                                                                   ELSE "WARNING")
                 /\ b[i].expired_licenses > 0
                      <=> \E m \in 1..Len(b[i].message) :
                             /\ b[i].message[m][1] = b[i].expired_licenses
                             /\ b[i].message[m][2] \in {"expired license",
                                                        "expired licenses"}
                 /\ b[i].expiring_soon > 0
                      <=> \E m \in 1..Len(b[i].message) :
                             b[i].message[m] = <<b[i].expiring_soon, "expiring soon">>
            /\ \A i, j \in 1..Len(b) :
                 i < j => /\ ~(b[i].severity = "WARNING" /\ b[j].severity = "CRITICAL")
                          /\ b[i].severity = b[j].severity
                               => b[i].expired_licenses >= b[j].expired_licenses

\* a device with two expired licenses, then one with one expired and one
\* expiring-soon license (its message gives both counts), then a WARNING
C18_Witness ==
    /\ report.op = "devices_at_risk"
    /\ Len(report.body) = 3
    /\ report.body[1].expired_licenses = 2
    /\ report.body[2].severity = "CRITICAL"
    /\ report.body[2].message = <<<<1, "expired license">>, <<1, "expiring soon">>>>
    /\ report.body[3].severity = "WARNING"

\* the CRITICAL items of a list of alerts
Criticals(alerts) == {i \in 1..Len(alerts) : alerts[i].severity = "CRITICAL"}

\* C19: a dashboard summary gives the lengths of the expiring-licenses list
\* (30 days), the overused-licenses list (75%) and the devices-at-risk list
\* (15 days) of the store as the request found it, and as critical_alerts the
\* number of CRITICAL items of the three lists, which is at most the sum of
\* the three lengths; so two calls on the same store give the same counts and
\* a call after a mutation gives those of the new store
C19_DashboardSnapshot ==
    report.op = "dashboard" =>
        \A lorder \in AllOrders(DOMAIN licenses), dorder \in AllOrders(devices) :
            LET b == report.body
                expiring == GetExpiringLicenses(valid_to, report.seen, 30, lorder)
                overused == GetOverusedLicenses(licenses, report.seen, 75, lorder)
                at_risk == GetDevicesAtRisk(valid_to, report.seen, status, 15, dorder)
            IN  /\ b.expiring_licenses_count = Len(expiring)
                /\ b.overused_licenses_count = Len(overused)
                /\ b.devices_at_risk_count = Len(at_risk)
                /\ b.critical_alerts = Cardinality(Criticals(expiring))
                                         + Cardinality(Criticals(overused))
                                         + Cardinality(Criticals(at_risk))
                /\ b.critical_alerts <= b.expiring_licenses_count
                                          + b.overused_licenses_count
                                          + b.devices_at_risk_count

\* after two Assigns the dashboard counts four critical alerts: a license 5
\* days from expiry, two full licenses, and the active device, which holds
\* the expired license
C19_Witness ==
    /\ report.op = "dashboard"
    /\ report.seen = assignments
    /\ Cardinality(assignments) = 2
    /\ report.body.expiring_licenses_count = 1
    /\ report.body.overused_licenses_count = 2
    /\ report.body.devices_at_risk_count = 1
    /\ report.body.critical_alerts = 4

\* the utilization percentage of license k is at least t (0 when max_usage
\* is 0)
UtilizationAtLeast(k, t) ==
    licenses[k] > 0 /\ 100 * Cardinality(Live(assignments, k)) >= t * licenses[k]

\* C21: the compliance report lists a license as overused exactly if its
\* utilization is at least 90% and as underutilized exactly if it is below
\* 30%, whatever its expiry bucket; and the alert service's compliance report
\* counts the same licenses as overused
C21_UsageFlags ==
    /\ report.op = "report_compliance" =>
         \A k \in DOMAIN licenses :
             /\ k \in KeysOf(report.body.overused_licenses)
                  <=> UtilizationAtLeast(k, 90)
             /\ k \in KeysOf(report.body.underutilized_licenses)
                  <=> ~UtilizationAtLeast(k, 30)
    /\ report.op = "alert_compliance" =>
         report.body.overused_licenses
           = Cardinality({k \in DOMAIN licenses : UtilizationAtLeast(k, 90)})

\* the audit call of the request handler p has answered was the last one made
\* and its row was not stored
AuditFailed(p) ==
    /\ pc[p] = "done"
    /\ Len(audit_calls) > pre[p].audit
    /\ ~audit_calls[Len(audit_calls)].stored

\* the store holds what the request handler p has answered was to write
Committed(p) ==
    CASE req[p].op = "assign" ->
           \E a \in assignments \ pre[p].assignments :
               /\ a.license_key = req[p].license_key
               /\ a.device_id = req[p].device_id
               /\ assignments = pre[p].assignments \cup {a}
               /\ result[p].assignment = {a}
      [] req[p].op = "release" ->
           /\ FindAssignment(pre[p].assignments, req[p].assignment_id) # {}
           /\ assignments = pre[p].assignments
                              \ FindAssignment(pre[p].assignments, req[p].assignment_id)
      [] req[p].op = "update_license" ->
           /\ req[p].license_key \in DOMAIN licenses
           /\ licenses[req[p].license_key]
                = Or(req[p].max_usage, pre[p].licenses[req[p].license_key])
           /\ valid_to[req[p].license_key]
                = Or(req[p].valid_to, pre[p].valid_to[req[p].license_key])
      [] req[p].op = "update_device" ->
           /\ req[p].device_id \in devices
           /\ status[req[p].device_id]
                = Or(req[p].status, pre[p].status[req[p].device_id])
      [] OTHER -> TRUE

\* C22: when the audit write after an Assign, a Release or an update of a
\* license or a device fails, the request is still answered 200 and what it
\* wrote stays in the store
C22_AuditFailureContained ==
    \A p \in Procs :
        AuditFailed(p)
          /\ req[p].op \in {"assign", "release", "update_license", "update_device"}
        => result[p].status_code = 200 /\ Committed(p)

\* an update that lowered a license's max_usage was answered 200 although its
\* audit row was lost
C22_Witness ==
    \E p \in Procs :
        /\ AuditFailed(p)
        /\ req[p].op = "update_license"
        /\ result[p].status_code = 200
        /\ licenses[req[p].license_key] < pre[p].licenses[req[p].license_key]

\* the audit calls made for the request handler p serves or has answered
CallsOf(p) == SubSeq(audit_calls, pre[p].audit + 1, Len(audit_calls))

\* C23: a successful Assign and a successful Release make exactly one audit
\* call, with the sender, ASSIGNMENT, the assignment's id, ASSIGN resp.
\* UNASSIGN and the license_key and device_id, which is one audit record unless
\* the recorder fails; while the record of a request exists the request's
\* write is in the store; a rejected Assign or Release makes no audit call
C23_OneAuditRecord ==
    \A p \in Procs :
        req[p].op \in {"assign", "release"} =>
          /\ Len(CallsOf(p)) <= 1
          /\ pc[p] = "done" => (Len(CallsOf(p)) = 1 <=> result[p].status_code = 200)
          /\ \A i \in 1..Len(CallsOf(p)) :
               LET c == CallsOf(p)[i]
                   row == FindAssignment(assignments \cup pre[p].assignments, c.entity_id)
               IN  /\ c.user_id = req[p].user
                   /\ c.entity_type = "ASSIGNMENT"
                   /\ c.action = IF req[p].op = "assign" THEN "ASSIGN" ELSE "UNASSIGN"
                   /\ \E a \in row : /\ c.license_key = a.license_key
                                     /\ c.device_id = a.device_id
                   /\ IF req[p].op = "assign"
                        THEN /\ row \subseteq assignments \ pre[p].assignments
                             /\ \A a \in row : /\ a.license_key = req[p].license_key
                                               /\ a.device_id = req[p].device_id
                        ELSE /\ c.entity_id = req[p].assignment_id
                             /\ row \subseteq pre[p].assignments \ assignments

\* an Assign and the Release of what it assigned were both answered 200 and
\* two audit records, ASSIGN and UNASSIGN, were stored for the assignment
C23_Witness ==
    /\ Len(audit_calls) = 2
    /\ audit_calls[1].action = "ASSIGN" /\ audit_calls[1].stored
    /\ audit_calls[2].action = "UNASSIGN" /\ audit_calls[2].stored
    /\ audit_calls[1].entity_id = audit_calls[2].entity_id
    /\ \E p \in Procs : Done(p, "release") /\ result[p].status_code = 200

\* the license request handler p has answered asked for a validity window
\* that is empty or for a capacity that is not positive
InvalidLicenseInput(p) ==
    \/ /\ req[p].op = "create_license"
       /\ req[p].valid_to <= req[p].valid_from \/ req[p].max_usage <= 0
    \/ /\ req[p].op = "update_license"
       /\ req[p].license_key \in DOMAIN pre[p].licenses
       /\ \/ \E to \in req[p].valid_to : to <= pre[p].valid_from[req[p].license_key]
          \/ \E max \in req[p].max_usage : max <= 0

\* C24: a license create or update asking for valid_to <= valid_from or for
\* max_usage <= 0 is rejected and writes nothing, so every stored license has
\* valid_to after valid_from and max_usage >= 1
C24_LicenseInputValidated ==
    /\ \A p \in Procs :
         pc[p] = "done" /\ InvalidLicenseInput(p) =>
           /\ result[p].status_code \in {400, 403, 404, 422}
           /\ licenses = pre[p].licenses
           /\ valid_to = pre[p].valid_to
           /\ valid_from = pre[p].valid_from
    /\ \A k \in DOMAIN licenses : valid_to[k] > valid_from[k] /\ licenses[k] >= 1

\* C25: a deleted license and a deleted device take every assignment that
\* references them along, so every assignment in the store references a
\* license and a device that are in the store
C25_NoDanglingAssignment ==
    /\ \A a \in assignments :
         a.license_key \in DOMAIN licenses /\ a.device_id \in devices
    /\ \A p \in Procs :
         /\ Done(p, "delete_license") /\ result[p].status_code = 200 =>
              /\ req[p].license_key \notin DOMAIN licenses
              /\ assignments = pre[p].assignments
                                 \ Live(pre[p].assignments, req[p].license_key)
         /\ Done(p, "delete_device") /\ result[p].status_code = 200 =>
              /\ req[p].device_id \notin devices
              /\ assignments = {a \in pre[p].assignments :
                                  a.device_id # req[p].device_id}

\* a license that was assigned to a device was deleted, and its assignment
\* with it
C25_Witness ==
    \E p \in Procs :
        /\ Done(p, "delete_license") /\ result[p].status_code = 200
        /\ Live(pre[p].assignments, req[p].license_key) # {}
        /\ assignments = {}

\* every table is as it was when handler p took up its request, and no audit
\* call was made
StoreAsBefore(p) ==
    /\ licenses = pre[p].licenses
    /\ valid_from = pre[p].valid_from
    /\ valid_to = pre[p].valid_to
    /\ devices = pre[p].devices
    /\ status = pre[p].status
    /\ assignments = pre[p].assignments
    /\ Len(audit_calls) = pre[p].audit

\* C26: creating a device under an id the store has is answered 400 "already
\* exists", and reading, updating or deleting an id the store does not have is
\* answered 404; neither changes the store, which has one row per device id.
\* Stated for requests the checks before the lookup let through (role, and for
\* create the ip_address)
C26_DeviceIdUnique ==
    /\ DOMAIN status = devices
    /\ \A p \in Procs :
         /\ ( /\ Done(p, "create_device")
              /\ RoleOf(req[p].user) \in {ADMIN, ENGINEER}
              /\ req[p].ip_valid
              /\ req[p].device_id \in pre[p].devices )
            => result[p] = HTTPException(400, "already_exists") /\ StoreAsBefore(p)
         /\ ( /\ \/ Done(p, "get_device")
                 \/ Done(p, "update_device") /\ RoleOf(req[p].user) \in {ADMIN, ENGINEER}
                 \/ Done(p, "delete_device") /\ RoleOf(req[p].user) = ADMIN
              /\ req[p].device_id \notin pre[p].devices )
            => result[p] = HTTPException(404, "device_not_found") /\ StoreAsBefore(p)

\* a device in maintenance was created under a new id, and a second create
\* under that id, for an active device, was refused
C26_Witness ==
    \E p \in Procs :
        /\ Done(p, "create_device")
        /\ result[p].detail = "already_exists"
        /\ req[p].device_id \notin {"DEV-A", "DEV-B"}
        /\ req[p].status = "ACTIVE"
        /\ status[req[p].device_id] = "MAINTENANCE"

\* C27: with Assign, Release and license updates served one at a time, also
\* updates of max_usage, no license has more live assignments than its
\* max_usage, in particular not the license an update was just answered for
C27_CapacityAfterUpdate ==
    /\ \A p \in Procs :
         Done(p, "update_license") /\ result[p].status_code = 200 =>
           Cardinality(Live(assignments, req[p].license_key))
             <= licenses[req[p].license_key]
    /\ \A l \in DOMAIN licenses : Cardinality(Live(assignments, l)) <= licenses[l]

\* the device counts and the license counts of a dashboard summary fit one
\* store state
Consistent(body) ==
    /\ body.active_devices + body.maintenance_devices + body.decommissioned_devices
         <= body.total_devices
    /\ body.expired_licenses + body.expiring_licenses_count <= body.total_licenses

\* C28 as stated: every dashboard summary fits one store state, also when
\* license and device requests are served between its queries
C28_ConsistentUnderInterleaving ==
    \A p \in Procs :
        Done(p, "dashboard") => Consistent(result[p].body)

\* C28: a dashboard summary whose queries all saw one store state (the
\* session read from a snapshot, or nothing was written between the queries)
\* is the summary of that state, and its counts fit it
C28_ConsistentOnOneState ==
    \A p \in Procs :
        Done(p, "dashboard")
          /\ (req[p].isolation = "snapshot" \/ result[p].undisturbed)
        => /\ Consistent(result[p].body)
           /\ \E lorder \in AllOrders(DOMAIN pre[p].licenses),
                 dorder \in AllOrders(pre[p].devices) :
                result[p].body
                  = GetDashboardSummary(pre[p].licenses, pre[p].valid_to,
                                        pre[p].assignments, pre[p].devices,
                                        pre[p].status, lorder, dorder)

\* a dashboard request read from its snapshot while the other handler
\* created a device between its queries, and its summary counts the two
\* devices of the snapshot, one of them active
C28_Witness ==
    \E p \in Procs, q \in Procs :
        /\ Done(p, "dashboard")
        /\ req[p].isolation = "snapshot"
        /\ ~result[p].undisturbed
        /\ result[p].body.total_devices = 2
        /\ result[p].body.active_devices = 1
        /\ Done(q, "create_device")
        /\ Cardinality(devices) = 3

AuditContents(p) ==
    IF "logs" \in DOMAIN result[p] THEN result[p].logs ELSE <<>>

\* C30: whatever requests were served before, no response to a request
\* authenticated as an ENGINEER carries an audit log entry
C30_AuditLogOnlyForAdminAndAuditor ==
    \A p \in Procs :
        pc[p] = "done" /\ RoleOf(req[p].user) = ENGINEER
        => AuditContents(p) = <<>>

====
